---- MODULE Spec2Model ----
(***************************************************************************)
(* Model of the APS simple viewer: the browser client's status poller      *)
(* (src/wwwroot/main.js) and the server's identifier codec                 *)
(* (src/services/aps.js).                                                  *)
(***************************************************************************)
EXTENDS Integers, Sequences, FiniteSets, TLC

(***************************************************************************)
(* Bounds of the model.                                                    *)
(***************************************************************************)
\* status queries issued in one page lifetime
MaxQueries == 3
\* clicks on a bucket option in one page lifetime
MaxBucketClicks == 1
\* length of the identifiers given to the codec
MaxIdLen == 4
\* length of the tokens a request can carry
MaxTokenLen == 3
\* pages of a backend listing
MaxPages == 3
\* items on a page of a backend listing
MaxPageSize == 2
\* length of the bucket names a request can carry, two fixed names apart
MaxNameLen == 4
\* derivatives of a manifest
MaxDerivatives == 2
\* clicks of the user on the create, upload, delete and bucket controls
MaxClicks == 4

(***************************************************************************)
(* Browser client: values.                                                 *)
(***************************************************************************)
\* subject identifiers (model urns) the backend can list
Urns == {"u1", "u2"}
\* the empty string: an empty fragment, an empty dropdown value
NoUrn == ""
\* an undefined window.onModelSelectedTimeout
NoTimer == 0

\* status values of a translation status record, as the status route sends them
Statuses == {"n/a", "inprogress", "failed", "pending", "success"}
\* what a status fetch can end with: a status, or a transport failure
\* (fetch rejects, or the response is not OK)
TransportError == "error"
Outcomes == Statuses \cup {TransportError}

VARIABLES
    handle,         \* window.onModelSelectedTimeout
    timers,         \* the browser's pending timers armed by setTimeout, oldest first
    nArmed,         \* timers armed so far (the last timer id handed out)
    hash,           \* window.location.hash without the leading '#'
    urn0,           \* the fragment read at page load (main.js:14)
    fetches,        \* status fetches in flight
    nQueries,       \* status fetches issued so far
    overlay,        \* content of the notification overlay
    loads,          \* the subjects loadModel was invoked with, in order
    alerts,         \* alerts shown
    modelsOptions,  \* option values of the models dropdown
    modelsValue,    \* value of the models dropdown
    onchange,       \* the models dropdown has its onchange handler
    bucketsLoaded,  \* the buckets dropdown holds bucket options
    bucketsFetch,   \* GET /api/buckets fetches in flight
    modelsFetch,    \* GET /api/models fetches of setupModelSelection in flight
    bucketModelsFetch, \* GET /api/models?bucket= fetches of onBucketSelected in flight
    nBucketClicks,  \* clicks on a bucket option so far
    nSelections,    \* onModelSelected calls not made by a timer
    lastOutcome,    \* outcome of the status fetch that completed last
    nInprog,        \* status fetches completed with 'inprogress'
    nTerminal,      \* status fetches completed with anything else
    id,             \* codec: the identifier given to urnify
    token,          \* codec: urnify's result
    decoded,        \* codec: deurnify's result
    cpc,            \* codec: position of the round trip
    bucketExists,   \* backend: the bucket of the requests exists
    ePc,            \* ensureBucketExists: position of each request in it
    eCheck,         \* ensureBucketExists: how each request's existence check ended
    eErr,           \* ensureBucketExists: the error each request's call raised
    eCalls,         \* the backend calls of each request, in order
    uPc,            \* POST /api/models: position of the handler
    uReq,           \* POST /api/models: the request's file and fields
    uBucket,        \* POST /api/models: the bucket key it uploads to
    uObj,           \* POST /api/models: objectId of the uploaded object
    uJob,           \* POST /api/models: the inputs of the translation jobs submitted
    uRes,           \* POST /api/models: the response
    lPc,            \* listing: position of listBuckets / listObjects and its route
    lKind,          \* listing: "buckets" (GET /api/buckets) or "objects" (GET /api/models)
    lPages,         \* listing: the pages the backend holds, in cursor order
    lCursor,        \* listing: the page the next request asks for
    lItems,         \* listing: the items collected so far
    lRes,           \* listing: the response
    bPc,            \* POST /api/buckets: position of the handler
    bBody,          \* POST /api/buckets: the request body
    bArg,           \* POST /api/buckets: the name passed to createBucket
    bRes,           \* POST /api/buckets: the response
    bBackend,       \* POST /api/buckets: what the backend answered to createBucket
    dPc,            \* deleteBucket: position
    dShape,         \* deleteBucket: where the listing response carries its items
    dPages,         \* deleteBucket: the pages of objects the backend holds for the bucket
    dList,          \* deleteBucket: the outcome of the listing call
    dQueue,         \* deleteBucket: the objects the loop has still to visit
    dAttempts,      \* deleteBucket: the deleteObject calls made, with their outcomes
    dBackend,       \* deleteBucket: the outcome of the bucket-delete call
    dRes,           \* deleteBucket: what the call returned or threw
    mPc,            \* GET /api/models/:urn/status: position of the handler
    mManifest,      \* GET /api/models/:urn/status: the manifest the backend holds
    mBackend,       \* GET /api/models/:urn/status: the outcome of the manifest lookup
    mSent,          \* GET /api/models/:urn/status: the responses sent
    mRes,           \* GET /api/models/:urn/status: the response
    createDisabled, \* page: the create button has the disabled attribute
    bucketsDisabled,\* page: the buckets dropdown has the class disabled
    uploadDisabled, \* page: the upload button has the disabled attribute
    modelsDisabled, \* page: the models dropdown has the disabled attribute
    notification,   \* page: what the overlay shows
    inFlight,       \* page: the requests in flight of each mutating operation
    listPending,    \* page: bucket listings of setUpBucketSelection in flight
    modelsPending,  \* page: model listings of onBucketSelected in flight
    clearTimers,    \* page: pending setTimeout(clearNotification, 3000)
    options,        \* page: the buckets dropdown has options
    selectedOption, \* page: an option of the buckets dropdown is selected
    nClicks,        \* page: clicks so far
    lastDone,       \* page: the mutating request that completed last
    rReq,           \* routing: the request the server received
    rIdx,           \* routing: the route the router tries next
    rHandler        \* routing: the handler the request reached

pollerVars == <<handle, timers, nArmed, hash, urn0, fetches, nQueries, overlay,
                loads, alerts, modelsOptions, modelsValue, onchange,
                bucketsLoaded, bucketsFetch, modelsFetch, bucketModelsFetch,
                nBucketClicks, nSelections, lastOutcome, nInprog,
                nTerminal>>
codecVars == <<id, token, decoded, cpc>>
ensureVars == <<bucketExists, ePc, eCheck, eErr, eCalls>>
uploadVars == <<uPc, uReq, uBucket, uObj, uJob, uRes>>
listVars == <<lPc, lKind, lPages, lCursor, lItems, lRes>>
createVars == <<bPc, bBody, bArg, bRes, bBackend>>
deleteVars == <<dPc, dShape, dPages, dList, dQueue, dAttempts, dBackend, dRes>>
statusVars == <<mPc, mManifest, mBackend, mSent, mRes>>
dispatchVars == <<rReq, rIdx, rHandler>>
serverVars == <<ensureVars, uploadVars, listVars, createVars, deleteVars, statusVars,
                dispatchVars>>
pageVars == <<createDisabled, bucketsDisabled, uploadDisabled, modelsDisabled,
              notification, inFlight, listPending, modelsPending, clearTimers,
              options, selectedOption, nClicks, lastDone>>
vars == <<pollerVars, codecVars, serverVars, pageVars>>

\* the requests the server handles at the same time
Requests == {"r1", "r2"}

\* no request is in ensureBucketExists
EnsureOff ==
    /\ bucketExists = FALSE
    /\ ePc = [r \in Requests |-> "off"]
    /\ eCheck = [r \in Requests |-> "pending"]
    /\ eErr = [r \in Requests |-> "none"]
    /\ eCalls = [r \in Requests |-> <<>>]

\* no response yet
NoResponseYet == [status |-> "none", urn |-> <<>>, err |-> "none", at |-> "none"]

\* a request without file and fields
NoRequest == [hasFile |-> FALSE, isZip |-> FALSE, entrypoint |-> "", bucketUrn |-> <<>>]

\* no POST /api/models request
UploadOff ==
    /\ uPc = "off"
    /\ uReq = NoRequest
    /\ uBucket = <<>>
    /\ uObj = <<>>
    /\ uJob = <<>>
    /\ uRes = NoResponseYet

\* no listing response yet
NoListing == [status |-> "none", items |-> <<>>, err |-> "none", at |-> "none"]

\* no listing request
ListOff ==
    /\ lPc = "off"
    /\ lKind = "objects"
    /\ lPages = <<>>
    /\ lCursor = 0
    /\ lItems = <<>>
    /\ lRes = NoListing

\* no POST /api/buckets response yet
NoBucketResponse ==
    [status |-> "none", name |-> <<>>, urn |-> <<>>, message |-> "none", err |-> "none"]

\* neither ossClient.createBucket nor ossClient.getBucketDetails has answered
NoBackendAnswer == [create |-> "none", details |-> "none"]

\* no POST /api/buckets request
CreateOff ==
    /\ bPc = "off"
    /\ bBody = [has |-> FALSE, bucketName |-> <<>>]
    /\ bArg = <<>>
    /\ bRes = NoBucketResponse
    /\ bBackend = NoBackendAnswer

\* deleteBucket has neither returned nor thrown
NoDeletion == [kind |-> "none", success |-> FALSE, status |-> "none", message |-> "none"]

\* no deleteBucket call
DeleteOff ==
    /\ dPc = "off"
    /\ dShape = "items"
    /\ dPages = <<>>
    /\ dList = "none"
    /\ dQueue = <<>>
    /\ dAttempts = <<>>
    /\ dBackend = "none"
    /\ dRes = NoDeletion

\* no response to a status request
NoStatusResponse ==
    [kind |-> "none", status |-> "none", progress |-> "none", messages |-> <<>>,
     err |-> "none"]

\* a manifest without a derivatives list
BareManifest(st) ==
    [status |-> st.status, progress |-> st.progress,
     derivatives |-> [has |-> FALSE, list |-> <<>>]]

\* no GET /api/models/:urn/status request
StatusOff ==
    /\ mPc = "off"
    /\ mManifest = BareManifest([status |-> "none", progress |-> "none"])
    /\ mBackend = "none"
    /\ mSent = 0
    /\ mRes = NoStatusResponse

\* the mutating operations of the page
Operations == {"create", "upload", "delete"}

\* no mutating request has completed
NoneDone == [op |-> "none", outcome |-> "none"]

\* the page's controls as they are after load, no request in flight
PageIdle ==
    /\ createDisabled = FALSE
    /\ bucketsDisabled = FALSE
    /\ uploadDisabled = FALSE
    /\ modelsDisabled = FALSE
    /\ notification = "none"
    /\ inFlight = [op \in Operations |-> 0]
    /\ listPending = 0
    /\ modelsPending = 0
    /\ clearTimers = 0
    /\ nClicks = 0
    /\ lastDone = NoneDone

\* the controls of the page are not used
PageOff == PageIdle /\ options = FALSE /\ selectedOption = FALSE

\* no request is routed
DispatchOff ==
    /\ rReq = [op |-> "none", method |-> "none", url |-> <<>>]
    /\ rIdx = 0
    /\ rHandler = "none"

\* the server handles no request
ServerOff == DispatchOff /\ EnsureOff /\ UploadOff /\ ListOff /\ CreateOff /\ DeleteOff /\ StatusOff

(***************************************************************************)
(* Browser client: the status poller, main.js.                             *)
(***************************************************************************)
\* clearTimeout(h): the timer with handle h leaves the pending timers; a handle
\* of a timer that has fired already, or no handle, clears nothing
clearTimeout(ts, h) == SelectSeq(ts, LAMBDA t : t.id # h)

\* setTimeout(onModelSelected, 5000, viewer, urn): one more pending timer, due
\* after all the pending ones (every timer has the same delay)
setTimeout(ts, tid, urn) == Append(ts, [id |-> tid, urn |-> urn])

\* variant: the fragment is assigned only after the fetch was issued
HashAtFetch_AfterFetch(old, urn) == old

\* the fragment at the moment the status fetch is issued: the assignment of
\* main.js:305 comes before the fetch of main.js:307
HashAtFetch(old, urn) == urn

\* variant: 'pending' is polled like 'inprogress'
ArmsTimer_AlsoPending(status) == status \in {"inprogress", "pending"}

\* variant: a failed translation is retried
ArmsTimer_AlsoFailed(status) == status \in {"inprogress", "failed"}

\* switch (status.status): the case that arms the re-query timer
ArmsTimer(status) == status = "inprogress"

\* variant: only 'success' hands over to loadModel
LoadsModel_OnlySuccess(status) == status = "success"

\* switch (status.status): the default case, which hands over to loadModel
LoadsModel(status) == status \notin {"n/a", "inprogress", "failed"}

\* showNotification / clearNotification: what the overlay shows after a status
\* fetch completed with `outcome' (a transport failure leaves it alone)
OverlayAfter(outcome, old) ==
    CASE outcome = TransportError -> old
      [] outcome = "n/a" -> "not_translated"
      [] outcome = "inprogress" -> "translating"
      [] outcome = "failed" -> "translation_failed"
      [] OTHER -> "none"

\* variant: the catch block only logs to the console
AlertsAfter_Swallowed(outcome, n) == n

\* the catch block of onModelSelected: a transport failure is alerted
AlertsAfter(outcome, n) == IF outcome = TransportError THEN n + 1 ELSE n

\* onModelSelected up to its first await: clear the timer the handle names,
\* delete the handle, set the fragment, issue the status fetch. `ts' are the
\* pending timers when the call starts, `by' is what made the call: a timer or
\* a selection.
onModelSelected(urn, ts, by) ==
    /\ timers' = IF handle # NoTimer THEN clearTimeout(ts, handle) ELSE ts
    /\ handle' = NoTimer
    /\ hash' = urn
    /\ nQueries' = nQueries + 1
    /\ fetches' = fetches \cup {[id |-> nQueries + 1, urn |-> urn,
                                 frag |-> HashAtFetch(hash, urn), by |-> by]}

\* the poller is left alone
pollerIdle == UNCHANGED <<handle, timers, hash, nQueries, fetches>>
historyIdle == UNCHANGED <<nArmed, loads, lastOutcome, nInprog, nTerminal>>

\* dropdown.onchange: the user picks another model in the models dropdown
UserChange(u) ==
    /\ onchange
    /\ u \in modelsOptions
    /\ u # modelsValue
    /\ nQueries < MaxQueries
    /\ modelsValue' = u
    /\ onModelSelected(u, timers, "selection")
    /\ nSelections' = nSelections + 1
    /\ historyIdle
    /\ UNCHANGED <<urn0, overlay, alerts, modelsOptions, onchange, bucketsLoaded,
                   bucketsFetch, modelsFetch, bucketModelsFetch, nBucketClicks>>
    /\ UNCHANGED <<codecVars, serverVars, pageVars>>

\* the timer armed at main.js:318 fires: onModelSelected(viewer, urn) runs with
\* the subject the timer was armed with
TimerFires ==
    /\ timers # <<>>
    /\ nQueries < MaxQueries
    /\ onModelSelected(Head(timers).urn, Tail(timers), "timer")
    /\ historyIdle
    /\ UNCHANGED <<urn0, overlay, alerts, modelsOptions, modelsValue, onchange,
                   bucketsLoaded, bucketsFetch, modelsFetch, bucketModelsFetch,
                   nBucketClicks, nSelections>>
    /\ UNCHANGED <<codecVars, serverVars, pageVars>>

\* the status fetch f completes with `outcome': the rest of onModelSelected
StatusCompletes(f, outcome) ==
    /\ f \in fetches
    /\ fetches' = fetches \ {f}
    /\ lastOutcome' = outcome
    /\ overlay' = OverlayAfter(outcome, overlay)
    /\ alerts' = AlertsAfter(outcome, alerts)
    /\ IF outcome # TransportError /\ ArmsTimer(outcome)
       THEN /\ timers' = setTimeout(timers, nArmed + 1, f.urn)
            /\ handle' = nArmed + 1
            /\ nArmed' = nArmed + 1
       ELSE UNCHANGED <<timers, handle, nArmed>>
    /\ loads' = IF outcome # TransportError /\ LoadsModel(outcome)
                THEN Append(loads, f.urn) ELSE loads
    /\ nInprog' = IF outcome = "inprogress" THEN nInprog + 1 ELSE nInprog
    /\ nTerminal' = IF outcome = "inprogress" THEN nTerminal ELSE nTerminal + 1
    /\ UNCHANGED <<hash, urn0, nQueries, modelsOptions, modelsValue, onchange,
                   bucketsLoaded, bucketsFetch, modelsFetch, bucketModelsFetch,
                   nBucketClicks, nSelections>>
    /\ UNCHANGED <<codecVars, serverVars, pageVars>>

\* what a model listing can answer: the option values, and the first of them
\* (the value the dropdown takes when its options are replaced)
Listings == {[opts |-> o, first |-> f] : o \in SUBSET Urns, f \in Urns \cup {NoUrn}}
ModelListings == {l \in Listings : IF l.opts = {} THEN l.first = NoUrn
                                   ELSE l.first \in l.opts}

\* selectBucket: the user clicks a bucket option; onBucketSelected issues the
\* listing of the bucket's models
selectBucket ==
    /\ bucketsLoaded
    /\ nBucketClicks < MaxBucketClicks
    /\ nBucketClicks' = nBucketClicks + 1
    /\ bucketModelsFetch' = bucketModelsFetch + 1
    /\ pollerIdle
    /\ historyIdle
    /\ UNCHANGED <<urn0, overlay, alerts, modelsOptions, modelsValue, onchange,
                   bucketsLoaded, bucketsFetch, modelsFetch, nSelections>>
    /\ UNCHANGED <<codecVars, serverVars, pageVars>>

\* onBucketSelected after its fetch: the listing failed
onBucketSelectedFails ==
    /\ bucketModelsFetch > 0
    /\ bucketModelsFetch' = bucketModelsFetch - 1
    /\ alerts' = alerts + 1
    /\ pollerIdle
    /\ historyIdle
    /\ UNCHANGED <<urn0, overlay, modelsOptions, modelsValue, onchange,
                   bucketsLoaded, bucketsFetch, modelsFetch, nBucketClicks,
                   nSelections>>
    /\ UNCHANGED <<codecVars, serverVars, pageVars>>

\* onBucketSelected after its fetch: the bucket holds no model
onBucketSelectedEmpty ==
    /\ bucketModelsFetch > 0
    /\ bucketModelsFetch' = bucketModelsFetch - 1
    /\ modelsOptions' = {}
    /\ modelsValue' = NoUrn
    /\ overlay' = "no_models"
    /\ pollerIdle
    /\ historyIdle
    /\ UNCHANGED <<urn0, alerts, onchange, bucketsLoaded, bucketsFetch,
                   modelsFetch, nBucketClicks, nSelections>>
    /\ UNCHANGED <<codecVars, serverVars, pageVars>>

\* onBucketSelected after its fetch: the bucket holds models, and the first of
\* them is selected
onBucketSelectedModels(l) ==
    /\ bucketModelsFetch > 0
    /\ l \in ModelListings
    /\ l.opts # {}
    /\ nQueries < MaxQueries
    /\ bucketModelsFetch' = bucketModelsFetch - 1
    /\ modelsOptions' = l.opts
    /\ modelsValue' = l.first
    /\ overlay' = "none"
    /\ onModelSelected(l.first, timers, "selection")
    /\ nSelections' = nSelections + 1
    /\ historyIdle
    /\ UNCHANGED <<urn0, alerts, onchange, bucketsLoaded, bucketsFetch,
                   modelsFetch, nBucketClicks>>
    /\ UNCHANGED <<codecVars, serverVars, pageVars>>

\* setUpBucketSelection after its fetch: the listing failed, or lists no bucket
setUpBucketSelectionNone(failed) ==
    /\ bucketsFetch > 0
    /\ bucketsFetch' = bucketsFetch - 1
    /\ alerts' = IF failed THEN alerts + 1 ELSE alerts
    /\ bucketsLoaded' = FALSE
    /\ pollerIdle
    /\ historyIdle
    /\ UNCHANGED <<urn0, overlay, modelsOptions, modelsValue, onchange,
                   modelsFetch, bucketModelsFetch, nBucketClicks, nSelections>>
    /\ UNCHANGED <<codecVars, serverVars, pageVars>>

\* setUpBucketSelection after its fetch: buckets are listed, and onBucketSelected
\* is called for the pre-selected bucket or for the first one
setUpBucketSelectionSome ==
    /\ bucketsFetch > 0
    /\ bucketsFetch' = bucketsFetch - 1
    /\ bucketsLoaded' = TRUE
    /\ bucketModelsFetch' = bucketModelsFetch + 1
    /\ pollerIdle
    /\ historyIdle
    /\ UNCHANGED <<urn0, overlay, alerts, modelsOptions, modelsValue, onchange,
                   modelsFetch, nBucketClicks, nSelections>>
    /\ UNCHANGED <<codecVars, serverVars, pageVars>>

\* setupModelSelection after its fetch: the listing failed
setupModelSelectionFails ==
    /\ modelsFetch > 0
    /\ modelsFetch' = modelsFetch - 1
    /\ alerts' = alerts + 1
    /\ pollerIdle
    /\ historyIdle
    /\ UNCHANGED <<urn0, overlay, modelsOptions, modelsValue, onchange,
                   bucketsLoaded, bucketsFetch, bucketModelsFetch, nBucketClicks,
                   nSelections>>
    /\ UNCHANGED <<codecVars, serverVars, pageVars>>

\* the value of the models dropdown after setupModelSelection filled it: the
\* option marked selected (the one equal to the fragment read at page load),
\* else the first option
PreselectedValue(l) == IF urn0 \in l.opts THEN urn0 ELSE l.first

\* setupModelSelection after its fetch: the dropdown is filled, gets its
\* onchange handler, and a non-empty value is selected
setupModelSelectionDone(l) ==
    /\ modelsFetch > 0
    /\ l \in ModelListings
    /\ modelsFetch' = modelsFetch - 1
    /\ modelsOptions' = l.opts
    /\ modelsValue' = PreselectedValue(l)
    /\ onchange' = TRUE
    /\ IF PreselectedValue(l) # NoUrn
       THEN /\ nQueries < MaxQueries
            /\ onModelSelected(PreselectedValue(l), timers, "selection")
            /\ nSelections' = nSelections + 1
       ELSE pollerIdle /\ UNCHANGED nSelections
    /\ historyIdle
    /\ UNCHANGED <<urn0, overlay, alerts, bucketsLoaded, bucketsFetch,
                   bucketModelsFetch, nBucketClicks>>
    /\ UNCHANGED <<codecVars, serverVars, pageVars>>

\* the page right after initViewer resolved (main.js:12-19): the fragment is
\* read, setUpBucketSelection and setupModelSelection have issued their fetches
PollerInit ==
    /\ handle = NoTimer
    /\ timers = <<>>
    /\ nArmed = 0
    /\ urn0 \in Urns \cup {NoUrn}
    /\ hash = urn0
    /\ fetches = {}
    /\ nQueries = 0
    /\ overlay = "none"
    /\ loads = <<>>
    /\ alerts = 0
    /\ modelsOptions = {}
    /\ modelsValue = NoUrn
    /\ onchange = FALSE
    /\ bucketsLoaded = FALSE
    /\ bucketsFetch = 1
    /\ modelsFetch = 1
    /\ bucketModelsFetch = 0
    /\ nBucketClicks = 0
    /\ nSelections = 0
    /\ lastOutcome = "none"
    /\ nInprog = 0
    /\ nTerminal = 0

CodecIdle ==
    /\ id = <<>>
    /\ token = <<>>
    /\ decoded = <<>>
    /\ cpc = "off"

Init == PollerInit /\ CodecIdle /\ ServerOff /\ PageOff

Next ==
    \/ \E u \in Urns : UserChange(u)
    \/ TimerFires
    \/ \E f \in fetches, o \in Outcomes : StatusCompletes(f, o)
    \/ selectBucket
    \/ onBucketSelectedFails
    \/ onBucketSelectedEmpty
    \/ \E l \in ModelListings : onBucketSelectedModels(l)
    \/ \E failed \in BOOLEAN : setUpBucketSelectionNone(failed)
    \/ setUpBucketSelectionSome
    \/ setupModelSelectionFails
    \/ \E l \in ModelListings : setupModelSelectionDone(l)

Spec == Init /\ [][Next]_vars

(***************************************************************************)
(* Steps of the poller, as seen from outside.                              *)
(***************************************************************************)
\* a status fetch completes in this step
CompletionStep == fetches' # fetches /\ fetches' \subseteq fetches
\* onModelSelected is called in this step by anything but a timer
SelectionStep == nSelections' = nSelections + 1
\* onModelSelected is called in this step by a timer
TimerStep == nQueries' = nQueries + 1 /\ nSelections' = nSelections
\* the outcomes of the default case of the switch
Completed == Statuses \ {"n/a", "inprogress", "failed"}

(***************************************************************************)
(* Claims about the poller.                                                *)
(***************************************************************************)
\* C1: at most one timer armed by onModelSelected is pending in every
\* reachable state. Two status fetches in flight that both answer
\* 'inprogress' each arm a timer, and the second does not clear the first.
CE_C1_AtMostOneTimer == Len(timers) <= 1

\* C2: when onModelSelected is called by a selection, every timer that was
\* pending is cleared in that call, so none of them can fire afterwards. The
\* call clears only the timer the handle names.
CE_C2_SelectionClearsTimers ==
    [][SelectionStep =>
        \A i \in 1..Len(timers) : \A j \in 1..Len(timers') :
            timers'[j].id # timers[i].id]_vars

\* C3: a timer only ever re-queries the subject that is selected (the value of
\* the models dropdown) when it fires.
CE_C3_TimerQueriesSelected ==
    [][TimerStep => Head(timers).urn = modelsValue]_vars

\* C4: a status response for a subject that is no longer the selected one is
\* ignored: the overlay, the timers and the loadModel calls stay as they were.
CE_C4_StaleResponseIgnored ==
    [][(CompletionStep /\ \E f \in fetches \ fetches' : f.urn # modelsValue) =>
        /\ overlay' = overlay
        /\ timers' = timers
        /\ handle' = handle
        /\ loads' = loads]_vars

\* C5: with one selection and no other, once a status fetch answered a
\* completed status after k answers 'inprogress', k+1 queries were issued, k
\* timers were armed, loadModel was invoked once (for the selected subject), no
\* timer is pending and no fetch is in flight; nothing further is issued.
C5_ScriptedPoll ==
    (nSelections = 1 /\ nTerminal >= 1 /\ lastOutcome \in Completed) =>
        /\ nTerminal = 1
        /\ nQueries = nInprog + 1
        /\ nArmed = nInprog
        /\ loads = <<hash>>
        /\ timers = <<>>
        /\ fetches = {}

\* the spec's case: in-progress, in-progress, complete
W_C5_TwoInProgressThenComplete ==
    /\ nSelections = 1
    /\ lastOutcome = "success"
    /\ nInprog = 2
    /\ nQueries = 3
    /\ Len(loads) = 1

\* C6: a completion of a status fetch arms a timer (for the subject of the
\* fetch, and stores its handle) exactly when the status is 'inprogress'; any
\* other status and a transport failure leave the timers and the handle alone.
C6_ArmsIffInProgress ==
    [][CompletionStep =>
        \E f \in fetches \ fetches' :
            IF lastOutcome' = "inprogress"
            THEN /\ nArmed' = nArmed + 1
                 /\ timers' = Append(timers, [id |-> nArmed', urn |-> f.urn])
                 /\ handle' = nArmed'
            ELSE /\ nArmed' = nArmed
                 /\ timers' = timers
                 /\ handle' = handle
                 /\ nQueries' = nQueries]_vars

\* one completion armed a timer, a later one (failed) armed none
W_C6_FailedArmsNothing ==
    /\ lastOutcome = "failed"
    /\ nInprog = 1
    /\ nTerminal = 1
    /\ nArmed = 1

\* C7: a completion with a status other than 'n/a', 'inprogress' and 'failed'
\* clears the notification and invokes loadModel once with the subject that
\* was queried; no other step invokes loadModel.
C7_LoadsOnCompleted ==
    [][/\ (CompletionStep /\ lastOutcome' \in Completed) =>
            /\ overlay' = "none"
            /\ \E f \in fetches \ fetches' : loads' = Append(loads, f.urn)
       /\ ~(CompletionStep /\ lastOutcome' \in Completed) => loads' = loads]_vars

\* a 'pending' status handed the queried subject to loadModel
W_C7_PendingLoads ==
    /\ lastOutcome = "pending"
    /\ Len(loads) = 1
    /\ overlay = "none"

\* C8: a transport failure of a status fetch is alerted, invokes no loadModel,
\* arms no timer and issues no query.
C8_TransportFailure ==
    [][(CompletionStep /\ lastOutcome' = TransportError) =>
        /\ alerts' = alerts + 1
        /\ loads' = loads
        /\ nArmed' = nArmed
        /\ timers' = timers
        /\ handle' = handle
        /\ nQueries' = nQueries]_vars

\* a status fetch failed in transport, and the poller is idle
W_C8_FailedFetch ==
    /\ lastOutcome = TransportError
    /\ alerts >= 1
    /\ nQueries = 1
    /\ fetches = {}
    /\ timers = <<>>

\* C9: every selection of a subject S issues the status fetch for S with the
\* fragment already set to S.
C9_FragmentBeforeQuery ==
    [][SelectionStep =>
        \E f \in fetches' \ fetches :
            /\ f.urn = modelsValue'
            /\ hash' = f.urn
            /\ f.frag = f.urn]_vars

\* a selection changed the fragment read at page load
W_C9_FragmentChanged ==
    \E f \in fetches : f.urn # urn0 /\ hash = f.urn /\ f.frag = f.urn

(***************************************************************************)
(* Server: the identifier codec, services/aps.js. Strings are sequences of *)
(* code points, buffers are sequences of bytes.                            *)
(***************************************************************************)
\* '=': the pad character of base64
PadChar == 61

\* characters of each class of the backend's legal identifier characters:
\* a, z, A, Z, 0, 9, '-', '.', '_', ':'
IdChars == {97, 122, 65, 90, 48, 57, 45, 46, 95, 58}

RECURSIVE SeqsUpTo(_, _)
\* the sequences over S of length at most n
SeqsUpTo(S, n) ==
    IF n = 0 THEN {<<>>}
    ELSE LET shorter == SeqsUpTo(S, n - 1)
         IN  shorter \cup {Append(q, c) : q \in {r \in shorter : Len(r) = n - 1}, c \in S}

Ids == SeqsUpTo(IdChars, MaxIdLen)

\* the UTF-8 bytes of one character (code points below 2048)
Utf8Char(c) ==
    IF c < 128 THEN <<c>> ELSE <<192 + (c \div 64), 128 + (c % 64)>>

RECURSIVE Utf8Encode(_)
\* Buffer.from(str): the UTF-8 bytes of a string, character by character
\* (computed by halves, which keeps the evaluation shallow for long strings)
Utf8Encode(str) ==
    IF str = <<>> THEN <<>>
    ELSE IF Len(str) = 1 THEN Utf8Char(str[1])
    ELSE LET h == Len(str) \div 2
         IN  Utf8Encode(SubSeq(str, 1, h)) \o Utf8Encode(SubSeq(str, h + 1, Len(str)))

RECURSIVE Utf8Decode(_)
\* buf.toString(): the string of UTF-8 bytes; a byte that starts no valid
\* sequence becomes U+FFFD
Utf8Decode(bytes) ==
    IF bytes = <<>> THEN <<>>
    ELSE LET b == Head(bytes)
         IN  IF b < 128 THEN <<b>> \o Utf8Decode(Tail(bytes))
             ELSE IF /\ b >= 194 /\ b < 224 /\ Len(bytes) >= 2
                     /\ bytes[2] >= 128 /\ bytes[2] < 192
                  THEN <<(b - 192) * 64 + (bytes[2] - 128)>>
                       \o Utf8Decode(Tail(Tail(bytes)))
                  ELSE <<65533>> \o Utf8Decode(Tail(bytes))

\* the character of a sextet in the base64 alphabet: A-Z a-z 0-9 + /
B64Char(v) ==
    IF v < 26 THEN 65 + v
    ELSE IF v < 52 THEN 97 + (v - 26)
    ELSE IF v < 62 THEN 48 + (v - 52)
    ELSE IF v = 62 THEN 43 ELSE 47

\* the sextet of a character, 64 for a character that has none; the decoder
\* reads the URL-safe '-' and '_' as well as '+' and '/'
unbase64(c) ==
    IF c >= 65 /\ c <= 90 THEN c - 65
    ELSE IF c >= 97 /\ c <= 122 THEN c - 97 + 26
    ELSE IF c >= 48 /\ c <= 57 THEN c - 48 + 52
    ELSE IF c = 43 \/ c = 45 THEN 62
    ELSE IF c = 47 \/ c = 95 THEN 63
    ELSE 64

RECURSIVE Base64Encode(_)
\* buf.toString("base64"): four characters for every three bytes, the last
\* group padded with '='
Base64Encode(bytes) ==
    IF bytes = <<>> THEN <<>>
    ELSE IF Len(bytes) = 1
    THEN <<B64Char(bytes[1] \div 4), B64Char((bytes[1] % 4) * 16), PadChar, PadChar>>
    ELSE IF Len(bytes) = 2
    THEN <<B64Char(bytes[1] \div 4),
           B64Char((bytes[1] % 4) * 16 + (bytes[2] \div 16)),
           B64Char((bytes[2] % 16) * 4), PadChar>>
    ELSE <<B64Char(bytes[1] \div 4),
           B64Char((bytes[1] % 4) * 16 + (bytes[2] \div 16)),
           B64Char((bytes[2] % 16) * 4 + (bytes[3] \div 64)),
           B64Char(bytes[3] % 64)>>
         \o Base64Encode(SubSeq(bytes, 4, Len(bytes)))

RECURSIVE Sextets(_)
\* the sextets the decoder reads: characters outside the alphabet are skipped,
\* and the first '=' ends the input
Sextets(str) ==
    IF str = <<>> \/ Head(str) = PadChar THEN <<>>
    ELSE IF unbase64(Head(str)) = 64 THEN Sextets(Tail(str))
    ELSE <<unbase64(Head(str))>> \o Sextets(Tail(str))

RECURSIVE SextetsToBytes(_)
\* three bytes for every four sextets; a last group of two or three sextets
\* gives one or two bytes, a single last sextet gives none
SextetsToBytes(x) ==
    IF Len(x) < 2 THEN <<>>
    ELSE IF Len(x) = 2 THEN <<x[1] * 4 + (x[2] \div 16)>>
    ELSE IF Len(x) = 3
    THEN <<x[1] * 4 + (x[2] \div 16), (x[2] % 16) * 16 + (x[3] \div 4)>>
    ELSE <<x[1] * 4 + (x[2] \div 16), (x[2] % 16) * 16 + (x[3] \div 4),
           (x[3] % 4) * 64 + x[4]>>
         \o SextetsToBytes(SubSeq(x, 5, Len(x)))

\* Buffer.from(str, "base64")
Base64Decode(str) == SextetsToBytes(Sextets(str))

\* str.replace(/=/g, "")
StripPad(str) == SelectSeq(str, LAMBDA c : c # PadChar)

\* "=".repeat(n)
Repeat(c, n) == [i \in 1..n |-> c]

\* variant: a token whose length is a multiple of 4 gets four pad characters
PadCount_NoOuterMod(len) == 4 - (len % 4)

\* (4 - (urn.length % 4)) % 4
PadCount(len) == (4 - (len % 4)) % 4

\* urn + "=".repeat(...)
paddedUrn(urn) == urn \o Repeat(PadChar, PadCount(Len(urn)))

urnify(x) == StripPad(Base64Encode(Utf8Encode(x)))

deurnify(urn) == Utf8Decode(Base64Decode(paddedUrn(urn)))

\* the codec is not in use
CodecOff == UNCHANGED codecVars

\* urnify(id)
Urnify ==
    /\ cpc = "start"
    /\ token' = urnify(id)
    /\ cpc' = "encoded"
    /\ UNCHANGED <<id, decoded>>
    /\ UNCHANGED <<pollerVars, serverVars, pageVars>>

\* deurnify(token)
Deurnify ==
    /\ cpc = "encoded"
    /\ decoded' = deurnify(token)
    /\ cpc' = "decoded"
    /\ UNCHANGED <<id, token>>
    /\ UNCHANGED <<pollerVars, serverVars, pageVars>>

\* an identifier of legal characters is about to be encoded
CodecInit ==
    /\ id \in Ids
    /\ token = <<>>
    /\ decoded = <<>>
    /\ cpc = "start"

\* the page of a browser that never loads it
PollerOff == PollerInit /\ urn0 = NoUrn

InitCodec == PollerOff /\ ServerOff /\ PageOff /\ CodecInit

NextCodec == Urnify \/ Deurnify

SpecCodec == InitCodec /\ [][NextCodec]_vars

(***************************************************************************)
(* Claims about the codec.                                                 *)
(***************************************************************************)
\* C10: for every identifier of legal characters, deurnify(urnify(id)) = id;
\* the token holds no pad character, and the token as deurnify pads it is the
\* padded base64 encoding of the identifier.
C10_RoundTrip ==
    /\ cpc \in {"encoded", "decoded"} =>
        /\ \A i \in 1..Len(token) : token[i] # PadChar
        /\ paddedUrn(token) = Base64Encode(Utf8Encode(id))
    /\ cpc = "decoded" => decoded = id

\* an identifier whose encoding had two pad characters came back
W_C10_TwoPadsRestored ==
    /\ cpc = "decoded"
    /\ Len(id) = 1
    /\ Len(token) = 2
    /\ Len(paddedUrn(token)) = 4
    /\ decoded = id

(***************************************************************************)
(* The identifiers the server encodes, and the tokens it is sent.          *)
(***************************************************************************)
\* characters of uploaded file names, which object ids embed:
\* a, '-', '.', '/', '?', '~'
NameChars == {97, 45, 46, 47, 63, 126}

\* bucket keys and object ids as the routes give them to urnify
ServerIds == SeqsUpTo(NameChars, MaxIdLen)

\* characters of a token in a request: A, Q, '-', '!', '='
TokenChars == {65, 81, 45, 33, 61}

\* req.query.bucket, req.fields["bucket-urn"]: any text claiming to be a token
Tokens == SeqsUpTo(TokenChars, MaxTokenLen)

\* an identifier of the server is about to be encoded
InitServerIds ==
    /\ PollerOff
    /\ ServerOff
    /\ PageOff
    /\ id \in ServerIds
    /\ token = <<>>
    /\ decoded = <<>>
    /\ cpc = "start"

SpecServerIds == InitServerIds /\ [][NextCodec]_vars

\* a token of a request is about to be decoded
InitTokens ==
    /\ PollerOff
    /\ ServerOff
    /\ PageOff
    /\ id = <<>>
    /\ token \in Tokens
    /\ decoded = <<>>
    /\ cpc = "encoded"

NextTokens == Deurnify

SpecTokens == InitTokens /\ [][NextTokens]_vars

\* A-Z, a-z, 0-9, '-', '_'
IsUrlSafeChar(c) ==
    \/ c >= 65 /\ c <= 90
    \/ c >= 97 /\ c <= 122
    \/ c >= 48 /\ c <= 57
    \/ c = 45
    \/ c = 95

\* the number of '=' a text ends with
RECURSIVE TrailingPads(_)
TrailingPads(str) ==
    IF str = <<>> \/ str[Len(str)] # PadChar THEN 0
    ELSE 1 + TrailingPads(SubSeq(str, 1, Len(str) - 1))

\* valid base64 text: groups of four characters of the alphabet (either
\* variant), the last group ending with at most two pad characters
ValidBase64(str) ==
    /\ Len(str) % 4 = 0
    /\ TrailingPads(str) <= 2
    /\ \A i \in 1..(Len(str) - TrailingPads(str)) : unbase64(str[i]) # 64

\* C11: the token of every identifier the server encodes holds no '=' and
\* only URL-safe base64 characters. toString("base64") writes the standard
\* alphabet, so a token can hold '+' and '/'.
CE_C11_UrlSafeAlphabet ==
    cpc \in {"encoded", "decoded"} =>
        \A i \in 1..Len(token) : token[i] # PadChar /\ IsUrlSafeChar(token[i])

\* C12: deurnify returns no string for a token that, once padded, is not valid
\* base64 text. Buffer.from(text, "base64") skips what it cannot read and
\* never fails.
CE_C12_InvalidTokenFails ==
    cpc = "decoded" => ValidBase64(paddedUrn(token))

(***************************************************************************)
(* Server: ensureBucketExists, services/aps.js. An error of a backend call *)
(* is named by the HTTP status of its response, "noresponse" when the call *)
(* failed without one (the connection failed).                             *)
(***************************************************************************)
NoResponse == "noresponse"

\* how ossClient.getBucketDetails can end for the bucket
CheckOutcomes(exists) ==
    IF exists THEN {"ok", "403", "500", NoResponse}
    ELSE {"404", "500", NoResponse}

\* how ossClient.createBucket can end for the bucket
CreateOutcomes(exists) ==
    IF exists THEN {"409", "500", NoResponse}
    ELSE {"ok", "500", NoResponse}

\* the catch block of ensureBucketExists reads error.axiosError.response.status:
\* an error without a response makes that read throw a TypeError
CheckRaises(outcome) == IF outcome = NoResponse THEN "TypeError" ELSE outcome

\* the catch block of ensureBucketExists: the status that leads to a create call
CreatesOn(outcome) == outcome = "404"

\* the error of the create call leaves ensureBucketExists as it is
CreateRaises(outcome) == outcome

\* getInternalToken: the credential exchange, which can fail
ensureToken(r, ok) ==
    /\ ePc[r] = "token"
    /\ eCalls' = [eCalls EXCEPT ![r] = Append(@, "getTwoLeggedToken")]
    /\ ePc' = [ePc EXCEPT ![r] = IF ok THEN "check" ELSE "failed"]
    /\ eErr' = [eErr EXCEPT ![r] = IF ok THEN @ ELSE "401"]
    /\ UNCHANGED <<bucketExists, eCheck>>

\* await ossClient.getBucketDetails(...) and the catch block up to the create call
ensureCheck(r, outcome) ==
    /\ ePc[r] = "check"
    /\ outcome \in CheckOutcomes(bucketExists)
    /\ eCalls' = [eCalls EXCEPT ![r] = Append(@, "getBucketDetails")]
    /\ eCheck' = [eCheck EXCEPT ![r] = outcome]
    /\ IF outcome = "ok"
       THEN ePc' = [ePc EXCEPT ![r] = "done"] /\ UNCHANGED eErr
       ELSE IF outcome # NoResponse /\ CreatesOn(outcome)
       THEN ePc' = [ePc EXCEPT ![r] = "create"] /\ UNCHANGED eErr
       ELSE /\ ePc' = [ePc EXCEPT ![r] = "failed"]
            /\ eErr' = [eErr EXCEPT ![r] = CheckRaises(outcome)]
    /\ UNCHANGED bucketExists

\* await ossClient.createBucket(...) inside the catch block
ensureCreate(r, outcome) ==
    /\ ePc[r] = "create"
    /\ outcome \in CreateOutcomes(bucketExists)
    /\ eCalls' = [eCalls EXCEPT ![r] = Append(@, "createBucket")]
    /\ bucketExists' = (bucketExists \/ outcome = "ok")
    /\ IF outcome = "ok"
       THEN ePc' = [ePc EXCEPT ![r] = "done"] /\ UNCHANGED eErr
       ELSE /\ ePc' = [ePc EXCEPT ![r] = "failed"]
            /\ eErr' = [eErr EXCEPT ![r] = CreateRaises(outcome)]
    /\ UNCHANGED eCheck

\* one step of ensureBucketExists for request r
ensureBucketExists(r) ==
    \/ \E ok \in BOOLEAN : ensureToken(r, ok)
    \/ \E o \in CheckOutcomes(bucketExists) : ensureCheck(r, o)
    \/ \E o \in CreateOutcomes(bucketExists) : ensureCreate(r, o)

\* two requests (listObjects or uploadObject) enter ensureBucketExists for the
\* same bucket
InitEnsure ==
    /\ PollerOff
    /\ CodecIdle
    /\ PageOff
    /\ DispatchOff
    /\ StatusOff
    /\ DeleteOff
    /\ UploadOff
    /\ ListOff
    /\ CreateOff
    /\ bucketExists \in BOOLEAN
    /\ ePc = [r \in Requests |-> "token"]
    /\ eCheck = [r \in Requests |-> "pending"]
    /\ eErr = [r \in Requests |-> "none"]
    /\ eCalls = [r \in Requests |-> <<>>]

EnsureStep(r) ==
    /\ ensureBucketExists(r)
    /\ UNCHANGED <<pollerVars, codecVars, pageVars, dispatchVars, uploadVars, listVars, createVars, deleteVars, statusVars>>

NextEnsure == \E r \in Requests : EnsureStep(r)

SpecEnsure == InitEnsure /\ [][NextEnsure]_vars

\* C16: a request that saw the bucket absent (404) and whose create call then
\* met a 409 conflict still completes ensureBucketExists. The create call is
\* awaited without a handler, so the conflict leaves as an error.
CE_C16_ConflictTolerated ==
    \A r \in Requests :
        (eCheck[r] = "404" /\ ePc[r] = "failed") => eErr[r] # "409"

\* C17: ensureBucketExists calls createBucket exactly when the check ended
\* with 404, and an error of the check other than 404 is the error it raises.
\* A failure without a response raises a TypeError in its place.
CE_C17_CreateIffNotFound ==
    \A r \in Requests :
        /\ ePc[r] \in {"done", "failed"} /\ eCheck[r] # "pending" =>
            (\E i \in 1..Len(eCalls[r]) : eCalls[r][i] = "createBucket")
                <=> eCheck[r] = "404"
        /\ eCheck[r] \notin {"pending", "ok", "404"} =>
            /\ ePc[r] = "failed"
            /\ eErr[r] = eCheck[r]

(***************************************************************************)
(* Server: POST /api/models, routes/models.js with uploadObject and        *)
(* translateObject of services/aps.js. The request is r1.                  *)
(***************************************************************************)
\* "the-captain-basic-app"
APS_BUCKET == <<116, 104, 101, 45, 99, 97, 112, 116, 97, 105, 110, 45, 98, 97, 115, 105, 99, 45, 97, 112, 112>>

\* the 'bucket-urn' field: absent, or the token of bucket "b-1"
BucketUrnFields == {<<>>, <<89, 105, 48, 120>>}

\* the 'model-zip-entrypoint' field: absent, or a file name
EntrypointFields == {"", "main.dwg"}

\* req.files["model-file"] and req.fields
UploadRequests ==
    [hasFile : BOOLEAN, isZip : BOOLEAN, entrypoint : EntrypointFields,
     bucketUrn : BucketUrnFields]

\* obj.objectId as the backend answers an upload: "a/a", "a/~"
UploadedIds == {<<97, 47, 97>>, <<97, 47, 126>>}

\* how a call of the backend other than the bucket calls can end
CallOutcomes == {"ok", "500", NoResponse}

\* variant: the handler does not check the file
MissingFile_Unchecked(req) == FALSE

\* if (!file)
MissingFile(req) == ~req.hasFile

\* the bucket key uploadObject gets: the decoded 'bucket-urn', else the default
BucketKeyOf(req) ==
    IF req.bucketUrn # <<>> THEN deurnify(req.bucketUrn) ELSE APS_BUCKET

\* variant: the job refers to the raw object id
JobUrn_Raw(objectId) == objectId

\* the urn translateObject is called with
JobUrn(objectId) == urnify(objectId)

\* the input of modelDerivativeClient.startJob
JobInput(urn, rootFilename) ==
    [urn |-> urn, compressedUrn |-> rootFilename # "", rootFilename |-> rootFilename]

\* next(error): the error goes to the error handler
ErrorResponse(err, op) == [status |-> "error", urn |-> <<>>, err |-> err, at |-> op]

\* one more backend call of request r1
Called(op) == eCalls' = [eCalls EXCEPT !["r1"] = Append(@, op)]

\* the handler up to the call of uploadObject, which enters ensureBucketExists
uploadStart ==
    /\ uPc = "start"
    /\ IF MissingFile(uReq)
       THEN /\ uRes' = [NoResponseYet EXCEPT !.status = "400"]
            /\ uPc' = "responded"
            /\ UNCHANGED <<uBucket, ensureVars>>
       ELSE /\ uBucket' = BucketKeyOf(uReq)
            /\ uPc' = "ensure"
            /\ ePc' = [ePc EXCEPT !["r1"] = "token"]
            /\ UNCHANGED <<uRes, bucketExists, eCheck, eErr, eCalls>>
    /\ UNCHANGED <<uReq, uObj, uJob>>

\* uploadObject after await service.ensureBucketExists(bucketKey)
uploadEnsured ==
    /\ uPc = "ensure"
    /\ ePc["r1"] \in {"done", "failed"}
    /\ IF ePc["r1"] = "failed"
       THEN /\ uRes' = ErrorResponse(eErr["r1"], "ensureBucketExists")
            /\ uPc' = "responded"
       ELSE /\ uPc' = "uploadToken"
            /\ UNCHANGED uRes
    /\ UNCHANGED <<uReq, uBucket, uObj, uJob, ensureVars>>

\* getInternalToken in uploadObject and in translateObject
uploadToken(ok) ==
    /\ uPc \in {"uploadToken", "translateToken"}
    /\ Called("getTwoLeggedToken")
    /\ IF ok
       THEN /\ uPc' = IF uPc = "uploadToken" THEN "upload" ELSE "translate"
            /\ UNCHANGED uRes
       ELSE /\ uRes' = ErrorResponse("401", "getTwoLeggedToken")
            /\ uPc' = "responded"
    /\ UNCHANGED <<uReq, uBucket, uObj, uJob, bucketExists, ePc, eCheck, eErr>>

\* ossClient.uploadObject(bucketKey, objectName, filePath)
uploadObject(outcome, objectId) ==
    /\ uPc = "upload"
    /\ Called("uploadObject")
    /\ IF outcome = "ok"
       THEN /\ uObj' = objectId
            /\ uPc' = "translateToken"
            /\ UNCHANGED uRes
       ELSE /\ uRes' = ErrorResponse(outcome, "uploadObject")
            /\ uPc' = "responded"
            /\ UNCHANGED uObj
    /\ UNCHANGED <<uReq, uBucket, uJob, bucketExists, ePc, eCheck, eErr>>

\* translateObject(urnify(obj.objectId), req.fields["model-zip-entrypoint"])
\* and res.json({name, urn})
translateObject(outcome) ==
    /\ uPc = "translate"
    /\ Called("startJob")
    /\ uJob' = Append(uJob, JobInput(JobUrn(uObj), uReq.entrypoint))
    /\ uRes' = IF outcome = "ok"
               THEN [NoResponseYet EXCEPT !.status = "200", !.urn = urnify(uObj)]
               ELSE ErrorResponse(outcome, "startJob")
    /\ uPc' = "responded"
    /\ UNCHANGED <<uReq, uBucket, uObj, bucketExists, ePc, eCheck, eErr>>

\* a POST /api/models request arrives
InitUpload ==
    /\ PollerOff
    /\ CodecIdle
    /\ PageOff
    /\ DispatchOff
    /\ StatusOff
    /\ DeleteOff
    /\ ListOff
    /\ CreateOff
    /\ bucketExists \in BOOLEAN
    /\ ePc = [r \in Requests |-> "off"]
    /\ eCheck = [r \in Requests |-> "pending"]
    /\ eErr = [r \in Requests |-> "none"]
    /\ eCalls = [r \in Requests |-> <<>>]
    /\ uPc = "start"
    /\ uReq \in UploadRequests
    /\ uBucket = <<>>
    /\ uObj = <<>>
    /\ uJob = <<>>
    /\ uRes = NoResponseYet

\* ensureBucketExists as uploadObject runs it
UploadEnsureStep ==
    /\ ensureBucketExists("r1")
    /\ UNCHANGED <<pollerVars, codecVars, pageVars, dispatchVars, uploadVars, listVars, createVars, deleteVars, statusVars>>

UploadStep ==
    /\ \/ uploadStart
       \/ uploadEnsured
       \/ \E ok \in BOOLEAN : uploadToken(ok)
       \/ \E o \in CallOutcomes, i \in UploadedIds : uploadObject(o, i)
       \/ \E o \in CallOutcomes : translateObject(o)
    /\ UNCHANGED <<pollerVars, codecVars, pageVars, dispatchVars, listVars, createVars, deleteVars, statusVars>>

NextUpload == UploadEnsureStep \/ UploadStep

SpecUpload == InitUpload /\ [][NextUpload]_vars

(***************************************************************************)
(* Claims about POST /api/models.                                          *)
(***************************************************************************)
\* the backend calls of the upload request
uploadCalls == eCalls["r1"]

\* the request made the backend call op
UploadCalled(op) == \E i \in 1..Len(uploadCalls) : uploadCalls[i] = op

\* the step of the handler a backend call belongs to (0: a token exchange)
StepOf(op) ==
    CASE op \in {"getBucketDetails", "createBucket"} -> 1
      [] op = "uploadObject" -> 2
      [] op = "startJob" -> 3
      [] OTHER -> 0

\* C13: a request without the 'model-file' field is answered 400 and makes no
\* backend call: no token exchange, no bucket call, no upload, no job.
C13_MissingFileRejected ==
    (uPc # "off" /\ ~uReq.hasFile) =>
        /\ uploadCalls = <<>>
        /\ ePc["r1"] = "off"
        /\ uObj = <<>>
        /\ uJob = <<>>
        /\ uPc \in {"start", "responded"}
        /\ uPc = "responded" => uRes.status = "400"

\* a request without file was answered
W_C13_Rejected ==
    /\ uPc = "responded"
    /\ ~uReq.hasFile
    /\ uRes.status = "400"
    /\ uploadCalls = <<>>

\* C14: the backend calls come in the order bucket calls, upload, job; the
\* job is submitted once, after a successful upload, for urnify of the
\* object's id; the 200 response carries that token and follows the job; a
\* failed upload or job is the last call made and its error is the response.
C14_UploadOrder ==
    /\ \A i, j \in 1..Len(uploadCalls) :
        (i < j /\ StepOf(uploadCalls[i]) # 0 /\ StepOf(uploadCalls[j]) # 0) =>
            /\ StepOf(uploadCalls[i]) <= StepOf(uploadCalls[j])
            /\ StepOf(uploadCalls[i]) > 1 =>
                   StepOf(uploadCalls[i]) < StepOf(uploadCalls[j])
    /\ UploadCalled("uploadObject") => ePc["r1"] = "done"
    /\ UploadCalled("startJob") <=> uJob # <<>>
    /\ uJob # <<>> =>
        /\ Len(uJob) = 1
        /\ uObj # <<>>
        /\ UploadCalled("uploadObject")
        /\ uJob[1].urn = urnify(uObj)
    /\ uRes.status = "200" =>
        /\ uJob # <<>>
        /\ uRes.urn = uJob[1].urn
        /\ uRes.urn = urnify(uObj)
        /\ uploadCalls[Len(uploadCalls)] = "startJob"
    /\ (uRes.status = "error" /\ uRes.at \in {"uploadObject", "startJob"}) =>
        /\ uploadCalls[Len(uploadCalls)] = uRes.at
        /\ uRes.err \in CallOutcomes \ {"ok"}
    /\ (uPc = "responded" /\ uObj # <<>>) => uRes.status \in {"200", "error"}

\* an upload was stored, its job submitted, and the request answered 200
W_C14_Answered ==
    /\ uRes.status = "200"
    /\ uObj = <<97, 47, 126>>
    /\ uJob[1].urn = uRes.urn
    /\ UploadCalled("createBucket")

\* C15: for an upload that is no archive the job has no entry point and
\* compressedUrn false, whatever the 'model-zip-entrypoint' field holds. The
\* handler passes the field on without looking at the file.
CE_C15_EntrypointOnlyForArchive ==
    \A i \in 1..Len(uJob) :
        ~uReq.isZip => (uJob[i].rootFilename = "" /\ ~uJob[i].compressedUrn)

(***************************************************************************)
(* Server: listBuckets and listObjects, services/aps.js, with the routes   *)
(* GET /api/buckets and GET /api/models. The request is r1.                *)
(***************************************************************************)
\* the page with number k and n items; pages with an odd number hold the same
\* items, and so do pages with an even number
Page(k, n) == [i \in 1..n |-> [page |-> k % 2, index |-> i]]

\* the page chains the backend can hold: the sizes of the pages are free
PageChains ==
    {[k \in 1..Len(sizes) |-> Page(k, sizes[k])] :
        sizes \in SeqsUpTo(0..MaxPageSize, MaxPages) \ {<<>>}}

RECURSIVE Flatten(_)
\* all items of a page chain, in page order
Flatten(pages) ==
    IF pages = <<>> THEN <<>> ELSE Head(pages) \o Flatten(Tail(pages))

\* the backend call that lists a page
ListCall(kind) == IF kind = "buckets" THEN "getBuckets" ELSE "getObjects"

\* variant: a page is put in front of the items collected
Collect_InFront(items, page) == page \o items

\* buckets.concat(response.items), objects.concat(response.items)
Collect(items, page) == items \o page

\* response.next: the backend names a next page
HasNext(pages, k) == k < Len(pages)

\* variant: a failed page request answers with the items collected so far
ListFailure_Partial(err, op, items) ==
    [status |-> "200", items |-> items, err |-> err, at |-> op]

\* a failed call leaves listBuckets / listObjects as an error, which the route
\* hands to next(error)
ListFailure(err, op, items) ==
    [status |-> "error", items |-> <<>>, err |-> err, at |-> op]

\* GET /api/buckets calls listBuckets; GET /api/models calls listObjects, which
\* enters ensureBucketExists
listStart ==
    /\ lPc = "start"
    /\ IF lKind = "objects"
       THEN /\ lPc' = "ensure"
            /\ ePc' = [ePc EXCEPT !["r1"] = "token"]
       ELSE /\ lPc' = "token"
            /\ UNCHANGED ePc
    /\ UNCHANGED <<lKind, lPages, lCursor, lItems, lRes, bucketExists, eCheck,
                   eErr, eCalls>>

\* listObjects after await service.ensureBucketExists(bucketKey)
listEnsured ==
    /\ lPc = "ensure"
    /\ ePc["r1"] \in {"done", "failed"}
    /\ IF ePc["r1"] = "failed"
       THEN /\ lRes' = ListFailure(eErr["r1"], "ensureBucketExists", lItems)
            /\ lPc' = "responded"
       ELSE /\ lPc' = "token"
            /\ UNCHANGED lRes
    /\ UNCHANGED <<lKind, lPages, lCursor, lItems, ensureVars>>

\* getInternalToken in listBuckets / listObjects
listToken(ok) ==
    /\ lPc = "token"
    /\ Called("getTwoLeggedToken")
    /\ IF ok
       THEN /\ lPc' = "page"
            /\ lCursor' = 1
            /\ UNCHANGED lRes
       ELSE /\ lRes' = ListFailure("401", "getTwoLeggedToken", lItems)
            /\ lPc' = "responded"
            /\ UNCHANGED lCursor
    /\ UNCHANGED <<lKind, lPages, lItems, bucketExists, ePc, eCheck, eErr>>

\* one ossClient.getBuckets / getObjects call: the first page, or the page the
\* cursor of the last response names; after the last page the route answers
listPage(outcome) ==
    /\ lPc = "page"
    /\ Called(ListCall(lKind))
    /\ IF outcome = "ok"
       THEN /\ lItems' = Collect(lItems, lPages[lCursor])
            /\ IF HasNext(lPages, lCursor)
               THEN /\ lCursor' = lCursor + 1
                    /\ UNCHANGED <<lPc, lRes>>
               ELSE /\ lRes' = [NoListing EXCEPT !.status = "200",
                                                 !.items = lItems']
                    /\ lPc' = "responded"
                    /\ UNCHANGED lCursor
       ELSE /\ lRes' = ListFailure(outcome, ListCall(lKind), lItems)
            /\ lPc' = "responded"
            /\ UNCHANGED <<lItems, lCursor>>
    /\ UNCHANGED <<lKind, lPages, bucketExists, ePc, eCheck, eErr>>

\* a GET /api/buckets or GET /api/models request arrives
InitList ==
    /\ PollerOff
    /\ CodecIdle
    /\ PageOff
    /\ DispatchOff
    /\ StatusOff
    /\ DeleteOff
    /\ UploadOff
    /\ CreateOff
    /\ bucketExists \in BOOLEAN
    /\ ePc = [r \in Requests |-> "off"]
    /\ eCheck = [r \in Requests |-> "pending"]
    /\ eErr = [r \in Requests |-> "none"]
    /\ eCalls = [r \in Requests |-> <<>>]
    /\ lPc = "start"
    /\ lKind \in {"buckets", "objects"}
    /\ lPages \in PageChains
    /\ lCursor = 0
    /\ lItems = <<>>
    /\ lRes = NoListing

\* ensureBucketExists as listObjects runs it
ListEnsureStep ==
    /\ ensureBucketExists("r1")
    /\ UNCHANGED <<pollerVars, codecVars, pageVars, dispatchVars, uploadVars, listVars, createVars, deleteVars, statusVars>>

ListStep ==
    /\ \/ listStart
       \/ listEnsured
       \/ \E ok \in BOOLEAN : listToken(ok)
       \/ \E o \in CallOutcomes : listPage(o)
    /\ UNCHANGED <<pollerVars, codecVars, pageVars, dispatchVars, uploadVars, createVars, deleteVars, statusVars>>

NextList == ListEnsureStep \/ ListStep

SpecList == InitList /\ [][NextList]_vars

(***************************************************************************)
(* Claims about the listings.                                              *)
(***************************************************************************)
\* the listing calls of the request so far
RECURSIVE CountOf(_, _)
CountOf(calls, op) ==
    IF calls = <<>> THEN 0
    ELSE (IF Head(calls) = op THEN 1 ELSE 0) + CountOf(Tail(calls), op)

NListCalls == CountOf(eCalls["r1"], ListCall(lKind))

\* C18: the listing asks for pages until a page names no next one and
\* answers with the items of all pages in page order, repeated items
\* included, after one listing call per page; it never makes more calls than
\* the backend has pages, and until it has answered it can take a step.
C18_AllPagesInOrder ==
    /\ NListCalls <= Len(lPages)
    /\ lRes.status = "200" =>
        /\ lRes.items = Flatten(lPages)
        /\ NListCalls = Len(lPages)
    /\ (lPc = "page" /\ lRes.status = "none") =>
        /\ lCursor = NListCalls + 1
        /\ lItems = Flatten(SubSeq(lPages, 1, NListCalls))
    /\ lPc \notin {"off", "responded"} => ENABLED NextList

\* three pages, the first and the third with the same two items, were listed
W_C18_ThreePages ==
    /\ lRes.status = "200"
    /\ Len(lPages) = 3
    /\ Len(lPages[1]) = 2
    /\ Len(lPages[3]) = 2
    /\ Len(lRes.items) = Len(lPages[1]) + Len(lPages[2]) + Len(lPages[3])
    /\ NListCalls = 3

\* C19: when a page request fails, on the first page or later, the request is
\* answered with that error and with none of the items collected so far.
C19_NoPartialList ==
    /\ (lPc = "responded" /\ NListCalls < Len(lPages)) => lRes.status = "error"
    /\ lRes.status = "error" =>
        /\ lRes.items = <<>>
        /\ lRes.at = ListCall(lKind) =>
            /\ lRes.err \in CallOutcomes \ {"ok"}
            /\ eCalls["r1"][Len(eCalls["r1"])] = ListCall(lKind)
    /\ lRes.status = "200" => NListCalls = Len(lPages)

\* the second page request failed after the first page gave items
W_C19_FailsMidway ==
    /\ lRes.status = "error"
    /\ lRes.at = ListCall(lKind)
    /\ NListCalls = 2
    /\ lItems # <<>>
    /\ lRes.items = <<>>

(***************************************************************************)
(* Server: POST /api/buckets, routes/buckets.js, and createBucket,         *)
(* services/aps.js. The request is r1.                                     *)
(***************************************************************************)
\* sanitizedBucketName.length < 3
MinKeyLen == 3
\* sanitizedBucketName.length > 128, substring(0, 128)
MaxKeyLen == 128

\* "My Bucket!"
MyBucket == <<77, 121, 32, 66, 117, 99, 107, 101, 116, 33>>

\* a name of 130 characters: 127 times a, a hyphen, a, a
LongName == [i \in 1..130 |-> IF i = 128 THEN 45 ELSE 97]

\* "ab"
TwoChars == <<97, 98>>

\* the characters of the other names: A b 0 - space !
BucketNameChars == {65, 98, 48, 45, 32, 33}

\* the names a request can carry
BucketNames == SeqsUpTo(BucketNameChars, MaxNameLen) \cup {MyBucket, LongName, TwoChars}

\* the request bodies: without bucketName, or with one
Bodies ==
    {[has |-> FALSE, bucketName |-> <<>>]} \cup
    {[has |-> TRUE, bucketName |-> n] : n \in BucketNames}

\* String.prototype.toLowerCase for one character: A-Z, and the Kelvin sign
\* whose lower case is k
LowerChar(c) ==
    IF c \in 65..90 THEN c + 32
    ELSE IF c = 8490 THEN 107
    ELSE c

toLowerCase(x) == [i \in 1..Len(x) |-> LowerChar(x[i])]

\* [a-z0-9]
IsAlnum(c) == c \in 97..122 \/ c \in 48..57

\* [a-z0-9-]
IsKeyChar(c) == IsAlnum(c) \/ c = 45

\* variant: a character that is not allowed becomes a hyphen
RemoveInvalid_Hyphenate(x) == [i \in 1..Len(x) |-> IF IsKeyChar(x[i]) THEN x[i] ELSE 45]

\* .replace(/[^a-z0-9-]/g, "")
RemoveInvalid(x) == SelectSeq(x, IsKeyChar)

RECURSIVE TrimLeading(_)
\* .replace(/^[^a-z0-9]+/, "")
TrimLeading(x) ==
    IF x = <<>> \/ IsAlnum(Head(x)) THEN x ELSE TrimLeading(Tail(x))

RECURSIVE TrimTrailing(_)
\* .replace(/[^a-z0-9]+$/, "")
TrimTrailing(x) ==
    IF x = <<>> \/ IsAlnum(x[Len(x)]) THEN x
    ELSE TrimTrailing(SubSeq(x, 1, Len(x) - 1))

\* the chain of replacements of the handler
Sanitize(x) == TrimTrailing(TrimLeading(RemoveInvalid(toLowerCase(x))))

\* if (sanitizedBucketName.length > 128) substring(0, 128)
Truncate(x) == IF Len(x) > MaxKeyLen THEN SubSeq(x, 1, MaxKeyLen) ELSE x

\* variant: the length of the sanitized name is not checked
TooShort_Unchecked(x) == FALSE

\* if (sanitizedBucketName.length < 3)
TooShort(x) == Len(x) < MinKeyLen

\* if (!bucketName)
NoBucketName(body) == ~body.has \/ body.bucketName = <<>>

\* the outcomes of ossClient.createBucket and ossClient.getBucketDetails
BucketCallOutcomes == {"ok", "409", "404", "403", "500", NoResponse}

\* what the inner catch of createBucket gets: the error of getBucketDetails,
\* or, when the lookup succeeded, the conflictError thrown inside the try,
\* which has no axiosError
DetailError(outcome) ==
    IF outcome = "ok"
    THEN [axiosStatus |-> "none", message |-> "already exists and is accessible"]
    ELSE [axiosStatus |-> outcome, message |-> "none"]

\* the message of the error the inner catch throws
ConflictMessage(detailError) ==
    IF detailError.axiosStatus = "404" THEN "recently deleted"
    ELSE IF detailError.axiosStatus = "403" THEN "in use by another application"
    ELSE "conflicts with an existing bucket"

\* variant: the handler hands every error to next(error)
RouteCatch_AlwaysNext(status, message, err) ==
    [NoBucketResponse EXCEPT !.status = "error", !.err = err]

\* catch (error) of the handler: 409 is answered, anything else goes to
\* next(error)
RouteCatch(status, message, err) ==
    IF status = "409"
    THEN [NoBucketResponse EXCEPT !.status = "409", !.message = message]
    ELSE [NoBucketResponse EXCEPT !.status = "error", !.err = err]

\* the handler up to await createBucket(sanitizedBucketName)
createBucketStart ==
    /\ bPc = "start"
    /\ IF NoBucketName(bBody)
       THEN /\ bRes' = [NoBucketResponse EXCEPT !.status = "400",
                                               !.message = "required"]
            /\ bPc' = "responded"
            /\ UNCHANGED bArg
       ELSE IF TooShort(Sanitize(bBody.bucketName))
       THEN /\ bRes' = [NoBucketResponse EXCEPT !.status = "400",
                                               !.message = "at least 3 characters"]
            /\ bPc' = "responded"
            /\ UNCHANGED bArg
       ELSE /\ bArg' = Truncate(Sanitize(bBody.bucketName))
            /\ bPc' = "token"
            /\ UNCHANGED bRes
    /\ UNCHANGED <<bBody, bBackend, ensureVars>>

\* getInternalToken in createBucket
createBucketToken(ok) ==
    /\ bPc = "token"
    /\ Called("getTwoLeggedToken")
    /\ IF ok
       THEN /\ bPc' = "create"
            /\ UNCHANGED bRes
       ELSE /\ bRes' = RouteCatch("none", "none", "401")
            /\ bPc' = "responded"
    /\ UNCHANGED <<bBody, bArg, bBackend, bucketExists, ePc, eCheck, eErr>>

\* ossClient.createBucket and what follows it
createBucketCall(outcome) ==
    /\ bPc = "create"
    /\ Called("createBucket")
    /\ IF outcome = "ok"
       THEN /\ bRes' = [NoBucketResponse EXCEPT !.status = "200",
                                               !.name = bArg,
                                               !.urn = urnify(bArg)]
            /\ bPc' = "responded"
       ELSE IF outcome = "409"
       THEN /\ bPc' = "details"
            /\ UNCHANGED bRes
       ELSE /\ bRes' = RouteCatch("none", "none", outcome)
            /\ bPc' = "responded"
    /\ bBackend' = [bBackend EXCEPT !.create = outcome]
    /\ UNCHANGED <<bBody, bArg, bucketExists, ePc, eCheck, eErr>>

\* ossClient.getBucketDetails after a 409, and the error thrown after it
createBucketDetails(outcome) ==
    /\ bPc = "details"
    /\ Called("getBucketDetails")
    /\ bRes' = RouteCatch("409", ConflictMessage(DetailError(outcome)), "none")
    /\ bPc' = "responded"
    /\ bBackend' = [bBackend EXCEPT !.details = outcome]
    /\ UNCHANGED <<bBody, bArg, bucketExists, ePc, eCheck, eErr>>

\* a POST /api/buckets request arrives
InitCreate ==
    /\ PollerOff
    /\ CodecIdle
    /\ PageOff
    /\ DispatchOff
    /\ StatusOff
    /\ DeleteOff
    /\ UploadOff
    /\ ListOff
    /\ bucketExists = FALSE
    /\ ePc = [r \in Requests |-> "off"]
    /\ eCheck = [r \in Requests |-> "pending"]
    /\ eErr = [r \in Requests |-> "none"]
    /\ eCalls = [r \in Requests |-> <<>>]
    /\ bPc = "start"
    /\ bBody \in Bodies
    /\ bArg = <<>>
    /\ bRes = NoBucketResponse
    /\ bBackend = NoBackendAnswer

NextCreate ==
    /\ \/ createBucketStart
       \/ \E ok \in BOOLEAN : createBucketToken(ok)
       \/ \E o \in BucketCallOutcomes \ {"404"} : createBucketCall(o)
       \/ \E o \in BucketCallOutcomes \ {"409"} : createBucketDetails(o)
    /\ UNCHANGED <<pollerVars, codecVars, pageVars, dispatchVars, uploadVars, listVars, deleteVars, statusVars>>

SpecCreate == InitCreate /\ [][NextCreate]_vars

(***************************************************************************)
(* Claims about POST /api/buckets.                                         *)
(***************************************************************************)
\* "my-bucket"
MyHyphenBucket == <<109, 121, 45, 98, 117, 99, 107, 101, 116>>

\* "mybucket"
MyBucketKey == <<109, 121, 98, 117, 99, 107, 101, 116>>

\* createBucket was entered
CreateBucketEntered == bPc \in {"token", "create", "details"} \/ eCalls["r1"] # <<>>

\* C20 as stated: for "My Bucket!" the name passed to createBucket and the
\* name of the 200 response are "my-bucket".
CE_C20_SanitizedWithHyphen ==
    (bBody.bucketName = MyBucket /\ CreateBucketEntered) =>
        /\ bArg = MyHyphenBucket
        /\ bRes.status = "200" => bRes.name = MyHyphenBucket

\* C20: for "My Bucket!" the name passed to createBucket is "mybucket", the
\* space and the exclamation mark removed, and the 200 response carries that
\* name and its urn.
C20_SanitizedName ==
    (bBody.bucketName = MyBucket /\ CreateBucketEntered) =>
        /\ bArg = MyBucketKey
        /\ bRes.status = "200" =>
            /\ bRes.name = MyBucketKey
            /\ bRes.urn = urnify(MyBucketKey)

\* the bucket for "My Bucket!" was created
W_C20_MyBucketCreated ==
    /\ bBody.bucketName = MyBucket
    /\ bRes.status = "200"
    /\ eCalls["r1"] = <<"getTwoLeggedToken", "createBucket">>

\* the request has no usable name: none, an empty one, or one whose
\* sanitized form is shorter than three characters
UnusableName ==
    \/ ~bBody.has
    \/ bBody.bucketName = <<>>
    \/ Len(Sanitize(bBody.bucketName)) < 3

\* C21: a request whose bucketName is missing, empty, or shorter than three
\* characters once sanitized is answered 400 and makes no backend call;
\* createBucket is not entered.
C21_UnusableNameRejected ==
    UnusableName =>
        /\ bPc \in {"start", "responded"}
        /\ bPc = "responded" => bRes.status = "400"
        /\ eCalls["r1"] = <<>>
        /\ bArg = <<>>

\* the request with the name "ab" was answered 400
W_C21_Rejected ==
    /\ bPc = "responded"
    /\ bRes.status = "400"
    /\ bBody.bucketName = TwoChars

\* the messages of the errors createBucket throws after a 409
ConflictMessages ==
    {"already exists and is accessible", "recently deleted",
     "in use by another application", "conflicts with an existing bucket"}

\* C22: after a backend create call that returned 409 the request is
\* answered 409 with the message of the error createBucket threw, whatever
\* the bucket-details lookup gave; a create call that failed otherwise ends
\* as that failure in the error handler.
C22_ConflictAnswered ==
    /\ (bBackend.create = "409" /\ bPc = "responded") =>
        /\ bBackend.details # "none"
        /\ bRes.status = "409"
        /\ bRes.message = ConflictMessage(DetailError(bBackend.details))
        /\ bRes.message \in ConflictMessages
    /\ (bBackend.create \notin {"none", "ok", "409"}) =>
        /\ bPc = "responded"
        /\ bRes.status = "error"
        /\ bRes.err = bBackend.create
        /\ bBackend.details = "none"
    /\ bRes.status = "409" => bBackend.create = "409"

\* a conflict whose lookup failed without a response was answered 409
W_C22_ConflictLookupFailed ==
    /\ bBackend.create = "409"
    /\ bBackend.details = NoResponse
    /\ bRes.status = "409"

\* C29: when the create call returned 409 and the bucket-details lookup
\* succeeded, the 409 response says that the name already exists and is
\* accessible.
CE_C29_AccessibleMessage ==
    (bBackend.create = "409" /\ bBackend.details = "ok" /\ bPc = "responded") =>
        /\ bRes.status = "409"
        /\ bRes.message = "already exists and is accessible"

(***************************************************************************)
(* Server: deleteBucket, clearBucketObjects and handleDeletionError,       *)
(* services/aps.js. The call is request r1.                                *)
(***************************************************************************)
\* where a listing response carries its items: at its top level, as
\* listObjects reads it, or under body, as clearBucketObjects reads it
Shapes == {"items", "body.items"}

\* the outcomes of ossClient.deleteBucket
DeleteOutcomes == {"ok", "404", "403", "409", "500", "503", NoResponse}

\* objects.body?.items of the one listing call clearBucketObjects makes: the
\* first page, when the response carries it under body
ListedObjects(shape, pages) == IF shape = "body.items" THEN pages[1] ELSE <<>>

\* variant: the loop over the objects ends at the first failed deleteObject
RemainingObjects_Abort(queue, outcome) == IF outcome = "ok" THEN Tail(queue) ELSE <<>>

\* for (const object of objects.body.items) with the try/catch around each
\* deleteObject
RemainingObjects(queue, outcome) == Tail(queue)

\* variant: the generic error always has status 500
ThrownStatus_Always500(status) ==
    IF status \in {"404", "403", "409"} THEN status ELSE "500"

\* the status of the error handleDeletionError throws
ThrownStatus(status) ==
    IF status \in {"404", "403", "409"} THEN status
    ELSE IF status = NoResponse THEN "500"
    ELSE status

\* the message of the error handleDeletionError throws
ThrownMessage(status) ==
    IF status = "404" THEN "not found"
    ELSE IF status = "403" THEN "Permission denied"
    ELSE IF status = "409" THEN "not empty or has active operations"
    ELSE "Failed to delete bucket"

handleDeletionError(status) ==
    [kind |-> "thrown", success |-> FALSE, status |-> ThrownStatus(status),
     message |-> ThrownMessage(status)]

\* getInternalToken in deleteBucket, outside its try
deleteToken(ok) ==
    /\ dPc = "token"
    /\ Called("getTwoLeggedToken")
    /\ IF ok
       THEN /\ dPc' = "list"
            /\ UNCHANGED dRes
       ELSE /\ dRes' = [NoDeletion EXCEPT !.kind = "thrown", !.message = "401"]
            /\ dPc' = "done"
    /\ UNCHANGED <<dShape, dPages, dList, dQueue, dAttempts, dBackend>>

\* clearBucketObjects: the listing call; its failure is caught and logged
clearBucketObjectsList(outcome) ==
    /\ dPc = "list"
    /\ Called("getObjects")
    /\ dList' = outcome
    /\ dQueue' = IF outcome = "ok" THEN ListedObjects(dShape, dPages) ELSE <<>>
    /\ dPc' = IF dQueue' = <<>> THEN "delete" ELSE "objects"
    /\ UNCHANGED <<dShape, dPages, dAttempts, dBackend, dRes>>

\* clearBucketObjects: one round of the loop; a failed deleteObject is caught
\* and logged
clearBucketObjectsDelete(outcome) ==
    /\ dPc = "objects"
    /\ Called("deleteObject")
    /\ dAttempts' = Append(dAttempts, [object |-> Head(dQueue), outcome |-> outcome])
    /\ dQueue' = RemainingObjects(dQueue, outcome)
    /\ dPc' = IF dQueue' = <<>> THEN "delete" ELSE "objects"
    /\ UNCHANGED <<dShape, dPages, dList, dBackend, dRes>>

\* ossClient.deleteBucket, then the return or handleDeletionError
deleteBucket(outcome) ==
    /\ dPc = "delete"
    /\ Called("deleteBucket")
    /\ dBackend' = outcome
    /\ dRes' = IF outcome = "ok"
               THEN [NoDeletion EXCEPT !.kind = "returned", !.success = TRUE,
                                       !.message = "deleted successfully"]
               ELSE handleDeletionError(outcome)
    /\ dPc' = "done"
    /\ UNCHANGED <<dShape, dPages, dList, dQueue, dAttempts>>

\* deleteBucket is called for a bucket
InitDelete ==
    /\ PollerOff
    /\ CodecIdle
    /\ PageOff
    /\ DispatchOff
    /\ StatusOff
    /\ UploadOff
    /\ ListOff
    /\ CreateOff
    /\ bucketExists = TRUE
    /\ ePc = [r \in Requests |-> "off"]
    /\ eCheck = [r \in Requests |-> "pending"]
    /\ eErr = [r \in Requests |-> "none"]
    /\ eCalls = [r \in Requests |-> <<>>]
    /\ dPc = "token"
    /\ dShape \in Shapes
    /\ dPages \in PageChains
    /\ dList = "none"
    /\ dQueue = <<>>
    /\ dAttempts = <<>>
    /\ dBackend = "none"
    /\ dRes = NoDeletion

NextDelete ==
    /\ \/ \E ok \in BOOLEAN : deleteToken(ok)
       \/ \E o \in CallOutcomes : clearBucketObjectsList(o)
       \/ \E o \in CallOutcomes : clearBucketObjectsDelete(o)
       \/ \E o \in DeleteOutcomes : deleteBucket(o)
    /\ UNCHANGED <<pollerVars, codecVars, pageVars, dispatchVars, uploadVars, listVars, createVars, statusVars>>
    /\ UNCHANGED <<bucketExists, ePc, eCheck, eErr>>

SpecDelete == InitDelete /\ [][NextDelete]_vars

(***************************************************************************)
(* Claims about deleteBucket.                                              *)
(***************************************************************************)
\* the objects of the deleteObject calls made so far
AttemptedObjects == [i \in 1..Len(dAttempts) |-> dAttempts[i].object]

\* the bucket-delete calls made so far
NDeleteCalls == CountOf(eCalls["r1"], "deleteBucket")

\* C23: a failed listing or failed object deletions do not end deleteBucket:
\* until the bucket-delete call nothing is thrown, by the time of that call
\* every listed object has had its deleteObject call, in order, and the
\* bucket-delete call is made exactly once.
C23_FailuresDoNotAbort ==
    /\ NDeleteCalls <= 1
    /\ (dList # "none" /\ dBackend = "none") =>
        /\ dRes.kind = "none"
        /\ dPc \in {"objects", "delete"}
    /\ (dList # "none" /\ dPc \in {"delete", "done"}) =>
        AttemptedObjects = (IF dList = "ok" THEN ListedObjects(dShape, dPages) ELSE <<>>)
    /\ (dList # "none" /\ dPc = "done") =>
        /\ NDeleteCalls = 1
        /\ eCalls["r1"][Len(eCalls["r1"])] = "deleteBucket"

\* the first of two listed objects failed to delete, the second was still
\* attempted, and the bucket-delete call was made
W_C23_FailedObjectThenDelete ==
    /\ Len(dAttempts) = 2
    /\ dAttempts[1].outcome # "ok"
    /\ dBackend # "none"

\* C24: deleteBucket returns success only after a bucket-delete call that
\* succeeded; after one that failed it throws an error with status 404, 403
\* or 409 for those backend statuses, the backend status for any other one,
\* and 500 when the failure has no status.
C24_DeletionResult ==
    /\ dRes.kind = "returned" => (dBackend = "ok" /\ dRes.success)
    /\ dBackend = "ok" => dRes.kind = "returned"
    /\ dBackend \notin {"none", "ok"} =>
        /\ dRes.kind = "thrown"
        /\ ~dRes.success
        /\ dRes.status = (IF dBackend = NoResponse THEN "500" ELSE dBackend)

\* a bucket-delete call answered 503 was thrown as an error with status 503
W_C24_Thrown503 ==
    /\ dBackend = "503"
    /\ dRes.kind = "thrown"
    /\ dRes.status = "503"

\* the objects in a sequence
Range(x) == {x[i] : i \in 1..Len(x)}

\* C30: when the listing succeeded and carries its items at the top level,
\* every object the backend holds in the bucket, on whatever page, has had
\* its deleteObject call by the time of the bucket-delete call.
CE_C30_EveryObjectDeleted ==
    (dList = "ok" /\ dShape = "items" /\ dBackend # "none") =>
        Range(AttemptedObjects) = Range(Flatten(dPages))

(***************************************************************************)
(* Server: GET /api/models/:urn/status, routes/models.js, and getManifest, *)
(* services/aps.js. The request is r1.                                     *)
(***************************************************************************)
\* a list that may be missing: derivative.messages, derivative.children,
\* manifest.derivatives
Missing == [has |-> FALSE, list |-> <<>>]

Present(list) == [has |-> TRUE, list |-> list]

\* the message lists of derivative d, child c (0 for the derivative itself):
\* missing or two messages, and for the derivative itself also empty
MessageLists(d, c) ==
    {Missing, Present(<<[d |-> d, c |-> c, i |-> 1], [d |-> d, c |-> c, i |-> 2]>>)}
    \cup (IF c = 0 THEN {Present(<<>>)} ELSE {})

\* the children lists of derivative d: missing, empty, one child or two
ChildLists(d) ==
    {Missing, Present(<<>>)}
    \cup {Present(<<[messages |-> m]>>) : m \in MessageLists(d, 1)}
    \cup {Present(<<[messages |-> m1], [messages |-> m2]>>) :
            m1 \in MessageLists(d, 1), m2 \in MessageLists(d, 2)}

\* the derivatives that can stand at place d of a manifest
Derivatives(d) ==
    {[messages |-> m, children |-> c] : m \in MessageLists(d, 0), c \in ChildLists(d)}

RECURSIVE DerivativeLists(_)
\* the derivatives lists of length n
DerivativeLists(n) ==
    IF n = 0 THEN {<<>>}
    ELSE {Append(l, x) : l \in DerivativeLists(n - 1), x \in Derivatives(n)}

\* manifest.status and manifest.progress
ManifestStates ==
    {[status |-> "inprogress", progress |-> "50% complete"],
     [status |-> "success", progress |-> "complete"]}

\* the manifests the backend can hold
Manifests ==
    {BareManifest(st) : st \in ManifestStates}
    \cup {[status |-> st.status, progress |-> st.progress, derivatives |-> Present(l)] :
            st \in ManifestStates,
            l \in UNION {DerivativeLists(n) : n \in 0..MaxDerivatives}}

\* the outcomes of modelDerivativeClient.getManifest
ManifestOutcomes == {"ok", "404", "500", NoResponse}

\* x || []
OrEmpty(x) == IF x.has THEN x.list ELSE <<>>

RECURSIVE ChildrenMessages(_)
\* for (const child of derivative.children) messages.concat(child.messages || [])
ChildrenMessages(children) ==
    IF children = <<>> THEN <<>>
    ELSE OrEmpty(Head(children).messages) \o ChildrenMessages(Tail(children))

\* variant: the messages of the children come before the derivative's own
DerivativeMessages_ChildrenFirst(derivative) ==
    (IF derivative.children.has THEN ChildrenMessages(derivative.children.list) ELSE <<>>)
    \o OrEmpty(derivative.messages)

\* one round of the loop over manifest.derivatives
DerivativeMessages(derivative) ==
    OrEmpty(derivative.messages)
    \o (IF derivative.children.has THEN ChildrenMessages(derivative.children.list) ELSE <<>>)

RECURSIVE ManifestMessages(_)
\* for (const derivative of manifest.derivatives)
ManifestMessages(derivatives) ==
    IF derivatives = <<>> THEN <<>>
    ELSE DerivativeMessages(Head(derivatives)) \o ManifestMessages(Tail(derivatives))

\* getManifest's catch: 404 gives null; the read of
\* err.axiosError.response.status throws a TypeError for an error without a
\* response; any other error is thrown again
ManifestError(outcome) == IF outcome = NoResponse THEN "TypeError" ELSE outcome

\* getInternalToken in getManifest
getManifestToken(ok) ==
    /\ mPc = "token"
    /\ Called("getTwoLeggedToken")
    /\ IF ok
       THEN /\ mPc' = "manifest"
            /\ UNCHANGED <<mRes, mSent>>
       ELSE /\ mRes' = [NoStatusResponse EXCEPT !.kind = "error", !.err = "401"]
            /\ mSent' = mSent + 1
            /\ mPc' = "done"
    /\ UNCHANGED <<mManifest, mBackend>>

\* modelDerivativeClient.getManifest and the rest of the handler
getManifest(outcome) ==
    /\ mPc = "manifest"
    /\ Called("getManifest")
    /\ mBackend' = outcome
    /\ mPc' = "done"
    /\ IF outcome = "ok"
       THEN IF mManifest.derivatives.has
            THEN /\ mRes' = [NoStatusResponse EXCEPT
                                !.kind = "json",
                                !.status = mManifest.status,
                                !.progress = mManifest.progress,
                                !.messages = ManifestMessages(mManifest.derivatives.list)]
                 /\ mSent' = mSent + 1
            ELSE UNCHANGED <<mRes, mSent>>
       ELSE IF outcome = "404"
       THEN /\ mRes' = [NoStatusResponse EXCEPT !.kind = "json", !.status = "n/a"]
            /\ mSent' = mSent + 1
       ELSE /\ mRes' = [NoStatusResponse EXCEPT !.kind = "error",
                                                !.err = ManifestError(outcome)]
            /\ mSent' = mSent + 1
    /\ UNCHANGED mManifest

\* a GET /api/models/:urn/status request arrives
InitStatus ==
    /\ PollerOff
    /\ CodecIdle
    /\ PageOff
    /\ DispatchOff
    /\ UploadOff
    /\ ListOff
    /\ CreateOff
    /\ DeleteOff
    /\ bucketExists = TRUE
    /\ ePc = [r \in Requests |-> "off"]
    /\ eCheck = [r \in Requests |-> "pending"]
    /\ eErr = [r \in Requests |-> "none"]
    /\ eCalls = [r \in Requests |-> <<>>]
    /\ mPc = "token"
    /\ mManifest \in Manifests
    /\ mBackend = "none"
    /\ mSent = 0
    /\ mRes = NoStatusResponse

NextStatus ==
    /\ \/ \E ok \in BOOLEAN : getManifestToken(ok)
       \/ \E o \in ManifestOutcomes : getManifest(o)
    /\ UNCHANGED <<pollerVars, codecVars, pageVars, dispatchVars, uploadVars, listVars, createVars, deleteVars>>
    /\ UNCHANGED <<bucketExists, ePc, eCheck, eErr>>

SpecStatus == InitStatus /\ [][NextStatus]_vars

(***************************************************************************)
(* Claims about GET /api/models/:urn/status.                               *)
(***************************************************************************)
\* message x stands before message y in the manifest: an earlier derivative,
\* or the same derivative and its own messages before its children's, an
\* earlier child, or an earlier place in the same list
Before(x, y) ==
    \/ x.d < y.d
    \/ x.d = y.d /\ x.c < y.c
    \/ x.d = y.d /\ x.c = y.c /\ x.i < y.i

\* all messages of a manifest with a derivatives list
AllMessages(manifest) ==
    LET ds == manifest.derivatives.list
        cs(k) == OrEmpty(ds[k].children)
    IN  UNION {Range(OrEmpty(ds[k].messages)) : k \in 1..Len(ds)}
        \cup UNION {UNION {Range(OrEmpty(cs(k)[j].messages)) : j \in 1..Len(cs(k))} :
                        k \in 1..Len(ds)}

\* C25: the messages of the status response are the messages of the
\* manifest, each once, a derivative's own before those of its children,
\* children and derivatives in manifest order; lists that are missing add
\* nothing.
C25_MessagesFlattened ==
    (mRes.kind = "json" /\ mBackend = "ok") =>
        /\ Range(mRes.messages) = AllMessages(mManifest)
        /\ Len(mRes.messages) = Cardinality(AllMessages(mManifest))
        /\ \A a, b \in 1..Len(mRes.messages) :
               a < b => Before(mRes.messages[a], mRes.messages[b])

\* a manifest of two derivatives was answered: the first with messages of
\* its own and of its second child, its first child without a messages list
W_C25_TwoDerivatives ==
    /\ mRes.kind = "json"
    /\ mBackend = "ok"
    /\ Len(mManifest.derivatives.list) = 2
    /\ mManifest.derivatives.list[1].messages.has
    /\ mManifest.derivatives.list[1].children.has
    /\ Len(mManifest.derivatives.list[1].children.list) = 2
    /\ ~mManifest.derivatives.list[1].children.list[1].messages.has
    /\ Len(mRes.messages) = 6

\* C26: a finished status request has had exactly one response: n/a after
\* a 404, the status record for a manifest that exists, an error otherwise.
CE_C26_OneResponse ==
    /\ mSent <= 1
    /\ mPc = "done" =>
        /\ mSent = 1
        /\ mBackend = "404" => (mRes.kind = "json" /\ mRes.status = "n/a")
        /\ mBackend = "ok" => (mRes.kind = "json" /\ mRes.status = mManifest.status)
        /\ mBackend \in {"500", NoResponse} => mRes.kind = "error"

(***************************************************************************)
(* Browser: the mutating operations of the page, wwwroot/main.js: bucket   *)
(* creation, model upload, bucket deletion, with the listings they start.  *)
(***************************************************************************)
\* how a fetch of the page ends: an OK response, a response that is not OK,
\* or a transport failure
FetchOutcomes == {"ok", "notok", "transport"}

\* how the bucket listing of setUpBucketSelection ends: failed, no buckets,
\* buckets with the one to select among them, buckets without it
ListingOutcomes == {"failed", "empty", "match", "nomatch"}

\* how the model listing of onBucketSelected ends: failed, no models, models
ModelsOutcomes == {"failed", "empty", "models"}

\* variant: the controls are enabled again only after an OK response
DisabledAfter_FailureKeeps(outcome) == outcome # "ok"

\* the disabled state the finally block leaves on the controls it handles
DisabledAfter(outcome) == FALSE

\* one more click of the user
Click ==
    /\ nClicks < MaxClicks
    /\ nClicks' = nClicks + 1

\* setUpBucketSelection up to its fetch: the options are removed
setUpBucketSelectionStart ==
    /\ options' = FALSE
    /\ selectedOption' = FALSE
    /\ listPending' = listPending + 1

\* create.onclick up to its fetch; a disabled button gets no click
createClick(emptyName) ==
    /\ Click
    /\ ~createDisabled
    /\ IF emptyName
       THEN UNCHANGED <<createDisabled, bucketsDisabled, notification, inFlight>>
       ELSE /\ createDisabled' = TRUE
            /\ bucketsDisabled' = TRUE
            /\ notification' = "creating"
            /\ inFlight' = [inFlight EXCEPT !["create"] = @ + 1]
    /\ UNCHANGED <<uploadDisabled, modelsDisabled, listPending, modelsPending,
                   clearTimers, options, selectedOption, lastDone>>

\* create.onclick after its fetch: try, catch and finally
createResponse(outcome) ==
    /\ inFlight["create"] > 0
    /\ inFlight' = [inFlight EXCEPT !["create"] = @ - 1]
    /\ IF outcome = "ok"
       THEN setUpBucketSelectionStart
       ELSE UNCHANGED <<options, selectedOption, listPending>>
    /\ notification' = "none"
    /\ createDisabled' = DisabledAfter(outcome)
    /\ bucketsDisabled' = DisabledAfter(outcome)
    /\ lastDone' = [op |-> "create", outcome |-> outcome]
    /\ UNCHANGED <<uploadDisabled, modelsDisabled, modelsPending, clearTimers, nClicks>>

\* upload.onclick and input.onchange up to the fetch; a disabled button gets
\* no click; without a selected bucket, or without an entrypoint for an
\* archive, the handler returns
uploadChange(entrypointGiven) ==
    /\ Click
    /\ ~uploadDisabled
    /\ IF selectedOption /\ entrypointGiven
       THEN /\ uploadDisabled' = TRUE
            /\ modelsDisabled' = TRUE
            /\ notification' = "uploading"
            /\ inFlight' = [inFlight EXCEPT !["upload"] = @ + 1]
       ELSE UNCHANGED <<uploadDisabled, modelsDisabled, notification, inFlight>>
    /\ UNCHANGED <<createDisabled, bucketsDisabled, listPending, modelsPending,
                   clearTimers, options, selectedOption, lastDone>>

\* input.onchange after its fetch: try, catch and finally
uploadResponse(outcome) ==
    /\ inFlight["upload"] > 0
    /\ inFlight' = [inFlight EXCEPT !["upload"] = @ - 1]
    /\ modelsPending' = IF outcome = "ok" THEN modelsPending + 1 ELSE modelsPending
    /\ notification' = "none"
    /\ uploadDisabled' = DisabledAfter(outcome)
    /\ modelsDisabled' = DisabledAfter(outcome)
    /\ lastDone' = [op |-> "upload", outcome |-> outcome]
    /\ UNCHANGED <<createDisabled, bucketsDisabled, listPending, clearTimers,
                   options, selectedOption, nClicks>>

\* deleteBucket of the page up to its fetch: the delete button of an option
\* is clicked, which the disabled class of the dropdown prevents, and the
\* user confirms or not
deleteBucketClick(confirmed) ==
    /\ Click
    /\ options
    /\ ~bucketsDisabled
    /\ IF confirmed
       THEN /\ notification' = "deleting"
            /\ inFlight' = [inFlight EXCEPT !["delete"] = @ + 1]
       ELSE UNCHANGED <<notification, inFlight>>
    /\ UNCHANGED <<createDisabled, bucketsDisabled, uploadDisabled, modelsDisabled,
                   listPending, modelsPending, clearTimers, options,
                   selectedOption, lastDone>>

\* deleteBucket of the page after its fetch
deleteBucketResponse(outcome) ==
    /\ inFlight["delete"] > 0
    /\ inFlight' = [inFlight EXCEPT !["delete"] = @ - 1]
    /\ IF outcome = "ok"
       THEN /\ setUpBucketSelectionStart
            /\ notification' = "deleted"
            /\ clearTimers' = clearTimers + 1
       ELSE /\ notification' = "none"
            /\ UNCHANGED <<options, selectedOption, listPending, clearTimers>>
    /\ lastDone' = [op |-> "delete", outcome |-> outcome]
    /\ UNCHANGED <<createDisabled, bucketsDisabled, uploadDisabled, modelsDisabled,
                   modelsPending, nClicks>>

\* setTimeout(clearNotification, 3000) fires
clearNotificationTimer ==
    /\ clearTimers > 0
    /\ clearTimers' = clearTimers - 1
    /\ notification' = "none"
    /\ UNCHANGED <<createDisabled, bucketsDisabled, uploadDisabled, modelsDisabled,
                   inFlight, listPending, modelsPending, options, selectedOption,
                   nClicks, lastDone>>

\* setUpBucketSelection after its fetch: the options are written, and with
\* buckets onBucketSelected is called
bucketsListed(outcome) ==
    /\ listPending > 0
    /\ listPending' = listPending - 1
    /\ options' = (outcome \in {"match", "nomatch"})
    /\ selectedOption' = (outcome = "match")
    /\ modelsPending' = IF outcome \in {"match", "nomatch"}
                        THEN modelsPending + 1 ELSE modelsPending
    /\ UNCHANGED <<createDisabled, bucketsDisabled, uploadDisabled, modelsDisabled,
                   notification, inFlight, clearTimers, nClicks, lastDone>>

\* selectBucket: an option is clicked, which the disabled class of the
\* dropdown prevents
selectBucketClick ==
    /\ Click
    /\ options
    /\ ~bucketsDisabled
    /\ selectedOption' = TRUE
    /\ modelsPending' = modelsPending + 1
    /\ UNCHANGED <<createDisabled, bucketsDisabled, uploadDisabled, modelsDisabled,
                   notification, inFlight, listPending, clearTimers, options,
                   lastDone>>

\* onBucketSelected after its fetch: without models a notification is shown,
\* with models it is cleared
modelsListed(outcome) ==
    /\ modelsPending > 0
    /\ modelsPending' = modelsPending - 1
    /\ notification' = IF outcome = "empty" THEN "no models"
                       ELSE IF outcome = "models" THEN "none"
                       ELSE notification
    /\ UNCHANGED <<createDisabled, bucketsDisabled, uploadDisabled, modelsDisabled,
                   inFlight, listPending, clearTimers, options, selectedOption,
                   nClicks, lastDone>>

\* the page after load, the buckets listed or not
InitPage ==
    /\ PollerOff
    /\ CodecIdle
    /\ ServerOff
    /\ PageIdle
    /\ options \in BOOLEAN
    /\ selectedOption \in BOOLEAN
    /\ selectedOption => options

NextPage ==
    /\ \/ \E emptyName \in BOOLEAN : createClick(emptyName)
       \/ \E o \in FetchOutcomes : createResponse(o)
       \/ \E given \in BOOLEAN : uploadChange(given)
       \/ \E o \in FetchOutcomes : uploadResponse(o)
       \/ \E confirmed \in BOOLEAN : deleteBucketClick(confirmed)
       \/ \E o \in FetchOutcomes : deleteBucketResponse(o)
       \/ clearNotificationTimer
       \/ \E o \in ListingOutcomes : bucketsListed(o)
       \/ selectBucketClick
       \/ \E o \in ModelsOutcomes : modelsListed(o)
    /\ UNCHANGED <<pollerVars, codecVars, serverVars>>

SpecPage == InitPage /\ [][NextPage]_vars

(***************************************************************************)
(* Claims about the mutating operations of the page.                       *)
(***************************************************************************)
\* C27: of bucket creation, bucket deletion and model upload at most one
\* request each is in flight, and while one is in flight the controls that
\* start the operation are disabled.
CE_C27_OneInFlight ==
    /\ \A op \in Operations : inFlight[op] <= 1
    /\ inFlight["create"] > 0 => createDisabled
    /\ inFlight["upload"] > 0 => uploadDisabled
    /\ inFlight["delete"] > 0 => bucketsDisabled

\* a request of operation op completes in this step
Completes(op) == inFlight'[op] < inFlight[op]

\* C28: the step in which a bucket-creation or model-upload request
\* completes, with whatever outcome, leaves the controls the request
\* disabled enabled and the notification cleared; the create button and the
\* buckets dropdown are disabled only while a creation is in flight, the
\* upload button and the models dropdown only while an upload is.
C28_ControlsReenabled ==
    [][/\ Completes("create") =>
            (~createDisabled' /\ ~bucketsDisabled' /\ notification' = "none")
       /\ Completes("upload") =>
            (~uploadDisabled' /\ ~modelsDisabled' /\ notification' = "none")
       /\ inFlight'["create"] = 0 => (~createDisabled' /\ ~bucketsDisabled')
       /\ inFlight'["upload"] = 0 => (~uploadDisabled' /\ ~modelsDisabled')]_vars

\* an upload answered with a response that is not OK has completed, nothing
\* is in flight, and every control is enabled again
W_C28_FailuresReenable ==
    /\ lastDone = [op |-> "upload", outcome |-> "notok"]
    /\ inFlight = [op \in Operations |-> 0]
    /\ ~createDisabled /\ ~bucketsDisabled /\ ~uploadDisabled /\ ~modelsDisabled
    /\ notification = "none"

(***************************************************************************)
(* Claim about the names POST /api/buckets passes on.                      *)
(***************************************************************************)
\* C34: every name passed to createBucket has between 3 and 128 characters,
\* all of them lowercase letters, digits or hyphens, the first and the last
\* a letter or a digit.
CE_C34_ValidBucketKey ==
    CreateBucketEntered =>
        /\ Len(bArg) >= MinKeyLen
        /\ Len(bArg) <= MaxKeyLen
        /\ \A i \in 1..Len(bArg) : IsKeyChar(bArg[i])
        /\ IsAlnum(bArg[1])
        /\ IsAlnum(bArg[Len(bArg)])

(***************************************************************************)
(* Claims about the fragment and about the selection of an empty bucket.   *)
(***************************************************************************)
\* C32: the fragment is the subject of the most recent selection: a call of
\* onModelSelected by a selection sets it to the selected subject, and a
\* call by a timer leaves it as it is.
CE_C32_FragmentIsSelection ==
    [][/\ SelectionStep => hash' = modelsValue'
       /\ TimerStep => hash' = hash]_vars

\* the models dropdown is empty and the overlay says that the bucket holds
\* no models: an empty bucket was selected, and no model since
EmptyBucketShown ==
    /\ modelsOptions = {}
    /\ modelsValue = NoUrn
    /\ overlay = "no_models"

\* C33: once an empty bucket is selected, a pending timer issues no status
\* query for the model selected before, and no answer to a query a timer
\* issued replaces the notification that the bucket holds no models.
CE_C33_EmptyBucketStopsPolling ==
    [][EmptyBucketShown =>
        /\ ~TimerStep
        /\ (CompletionStep /\ \E f \in fetches \ fetches' : f.by = "timer") =>
               overlay' = overlay]_vars

(***************************************************************************)
(* Routing: the requests wwwroot/main.js and viewer.js issue, and the      *)
(* routes server.js mounts. URLs are sequences of code points.             *)
(***************************************************************************)
\* "/api/auth/token"
PathAuthToken == <<47, 97, 112, 105, 47, 97, 117, 116, 104, 47, 116, 111, 107, 101, 110>>
\* "/api/buckets"
PathBuckets == <<47, 97, 112, 105, 47, 98, 117, 99, 107, 101, 116, 115>>
\* "/api/buckets/create"
PathBucketsCreate == <<47, 97, 112, 105, 47, 98, 117, 99, 107, 101, 116, 115, 47, 99, 114, 101, 97, 116, 101>>
\* "/api/models"
PathModels == <<47, 97, 112, 105, 47, 109, 111, 100, 101, 108, 115>>
\* "/api/models/:urn/status"
PathModelStatus == <<47, 97, 112, 105, 47, 109, 111, 100, 101, 108, 115, 47, 58, 117, 114, 110, 47, 115, 116, 97, 116, 117, 115>>
\* "/api/models/"
PrefixModels == <<47, 97, 112, 105, 47, 109, 111, 100, 101, 108, 115, 47>>
\* "/status"
SuffixStatus == <<47, 115, 116, 97, 116, 117, 115>>
\* "?bucket="
QueryBucket == <<63, 98, 117, 99, 107, 101, 116, 61>>

\* encodeURIComponent for the characters of base64: '+', '/' and '=' are
\* escaped, letters, digits, '-' and '_' are kept
EscapeChar(c) ==
    IF c = 43 THEN <<37, 50, 66>>
    ELSE IF c = 47 THEN <<37, 50, 70>>
    ELSE IF c = 61 THEN <<37, 51, 68>>
    ELSE <<c>>

RECURSIVE encodeURIComponent(_)
encodeURIComponent(x) ==
    IF x = <<>> THEN <<>> ELSE EscapeChar(Head(x)) \o encodeURIComponent(Tail(x))

\* the requests of the page: method and URL of each fetch, for the urns the
\* server hands out
ClientRequests ==
    {[op |-> "token", method |-> "GET", url |-> PathAuthToken],
     [op |-> "list buckets", method |-> "GET", url |-> PathBuckets],
     [op |-> "list models", method |-> "GET", url |-> PathModels],
     [op |-> "create bucket", method |-> "POST", url |-> PathBucketsCreate],
     [op |-> "upload", method |-> "POST", url |-> PathModels],
     [op |-> "delete bucket", method |-> "DELETE", url |-> PathBuckets]}
    \cup {[op |-> "list models", method |-> "GET",
           url |-> PathModels \o QueryBucket \o encodeURIComponent(urnify(i))] :
            i \in ServerIds \ {<<>>}}
    \cup {[op |-> "status", method |-> "GET",
           url |-> PrefixModels \o urnify(i) \o SuffixStatus] :
            i \in ServerIds \ {<<>>}}

\* the routes in the order server.js mounts them: auth.js, buckets.js,
\* models.js
Routes ==
    <<[method |-> "GET", path |-> PathAuthToken, handler |-> "GET /api/auth/token"],
      [method |-> "GET", path |-> PathBuckets, handler |-> "GET /api/buckets"],
      [method |-> "POST", path |-> PathBuckets, handler |-> "POST /api/buckets"],
      [method |-> "GET", path |-> PathModels, handler |-> "GET /api/models"],
      [method |-> "GET", path |-> PathModelStatus,
       handler |-> "GET /api/models/:urn/status"],
      [method |-> "POST", path |-> PathModels, handler |-> "POST /api/models"]>>

RECURSIVE Pathname(_)
\* the path of a URL: what stands before the '?'
Pathname(url) ==
    IF url = <<>> \/ Head(url) = 63 THEN <<>> ELSE <<Head(url)>> \o Pathname(Tail(url))

RECURSIVE Segments(_, _)
\* the segments of a path between its slashes, `seg' being the segment read
\* so far; empty segments are dropped, so a trailing slash does not count
Segments(path, seg) ==
    IF path = <<>> THEN (IF seg = <<>> THEN <<>> ELSE <<seg>>)
    ELSE IF Head(path) = 47
    THEN (IF seg = <<>> THEN <<>> ELSE <<seg>>) \o Segments(Tail(path), <<>>)
    ELSE Segments(Tail(path), Append(seg, Head(path)))

\* a segment of a route path fits a segment of a request path: a parameter
\* (':' first) fits every segment, any other only itself
SegmentFits(p, x) == p[1] = 58 \/ p = x

\* the route fits the request: the same method, as many segments, each
\* fitting
Matches(route, req) ==
    LET ps == Segments(route.path, <<>>)
        xs == Segments(Pathname(req.url), <<>>)
    IN  /\ route.method = req.method
        /\ Len(ps) = Len(xs)
        /\ \A k \in 1..Len(ps) : SegmentFits(ps[k], xs[k])

\* the router tries its next route: the request reaches the handler of the
\* route when the route fits, and goes on to the next one otherwise
tryRoute ==
    /\ rHandler = "none"
    /\ rIdx \in 1..Len(Routes)
    /\ IF Matches(Routes[rIdx], rReq)
       THEN /\ rHandler' = Routes[rIdx].handler
            /\ UNCHANGED rIdx
       ELSE /\ rIdx' = rIdx + 1
            /\ UNCHANGED rHandler
    /\ UNCHANGED rReq

\* no route fitted: the request is answered 404 by no handler of the server
notFound ==
    /\ rHandler = "none"
    /\ rIdx = Len(Routes) + 1
    /\ rHandler' = "404"
    /\ UNCHANGED <<rReq, rIdx>>

\* a request of the page arrives: express.static finds no file for a path
\* under /api and express.json passes every request on
InitDispatch ==
    /\ PollerOff
    /\ CodecIdle
    /\ PageOff
    /\ EnsureOff /\ UploadOff /\ ListOff /\ CreateOff /\ DeleteOff /\ StatusOff
    /\ rReq \in ClientRequests
    /\ rIdx = 1
    /\ rHandler = "none"

NextDispatch ==
    /\ tryRoute \/ notFound
    /\ UNCHANGED <<pollerVars, codecVars, pageVars, ensureVars, uploadVars, listVars,
                   createVars, deleteVars, statusVars>>

SpecDispatch == InitDispatch /\ [][NextDispatch]_vars

(***************************************************************************)
(* Claim about the routing.                                                *)
(***************************************************************************)
\* C31: every request of the page reaches a handler the server mounts; a
\* bucket creation reaches the handler of POST /api/buckets, a bucket
\* deletion a handler for DELETE /api/buckets.
CE_C31_RequestsReachHandlers ==
    rHandler # "none" =>
        /\ rHandler # "404"
        /\ rReq.op = "create bucket" => rHandler = "POST /api/buckets"
        /\ rReq.op = "delete bucket" => rHandler = "DELETE /api/buckets"

====
